---------------------------- MODULE Spec2Model ----------------------------
(***************************************************************************)
(* State-machine model of the video upload service.                        *)
(*                                                                         *)
(* One behaviour follows one unit of work from its arrival to its end:     *)
(*   flow = "upload" : POST /api/upload, i.e. the multer middleware, the   *)
(*                     uploadFile handler and its background task          *)
(*                     (compressVideo, s3Service.uploadFile,               *)
(*                     extractAudioMP3, notifyFileUploaded / notifyError); *)
(*   flow = "story"  : one call of storyService.processStoryVideo;         *)
(*   flow = "jobs"   : the upload flow of one valid request while a second *)
(*                     upload job runs in the same process and the clock   *)
(*                     advances;                                           *)
(*   flow = "download" : one call of the generateDownloadUrl handler       *)
(*                     (POST /api/generate-download-url);                  *)
(*   flow = "notify" : one call of notifyFileUploaded under any            *)
(*                     configuration of the two payload field names;       *)
(*   flow = "publish" : one call of s3Service.uploadFile with and without  *)
(*                     forceDownload;                                      *)
(*   flow = "invoke" : one ffmpeg invocation of compressVideo or of        *)
(*                     processSegment, event by event.                     *)
(* Every external call (subprocess, filesystem, storage, webhook) is an    *)
(* await point of the code and one action of the model; its outcome is     *)
(* chosen by the environment.                                              *)
(***************************************************************************)
EXTENDS Integers, Sequences, FiniteSets, TLC

VARIABLES
    flow,        \* "upload" | "story" | "jobs" | "download" | "notify" | "publish" | "invoke"
    now,         \* the last reading of Date.now(), in ms since the request arrived
    published,   \* the storage key of every production publish call, per job
    created,     \* number of directories fs.mkdtemp has created so far
    scratch,     \* per job: the scratch directory it holds, or NoDir
    other,       \* the second upload job (flow "jobs")
    req,         \* the incoming multipart request (upload flow)
    cfg,         \* process configuration (environment variables)
    pc,          \* position of the request handler / background task
    file,        \* req.file as multer leaves it (NoFile when absent)
    responses,   \* HTTP responses sent for the request, in order
    log,         \* calls made by the background task, in order
    caught,      \* the error caught by the background task's catch, or NoError
    outcomes,    \* how each stage of the background task ended (history)
    vs,          \* the running videoService call (compressVideo / extractAudioMP3)
    dirs,        \* scratch directories: state of each on the filesystem
    compressedVideo, \* result of compressVideo
    extractedAudio,  \* result of extractAudioMP3
    s3,          \* the running s3Service.uploadFile call
    videoUrls,   \* result of the video publish
    audioUrls,   \* result of the audio publish
    nt,          \* the running notificationService call
    st,          \* the running storyService.processStoryVideo call
    ff           \* one ffmpeg invocation: its promise, timer and subprocess

vars == <<flow, now, published, created, scratch, other, req, cfg, pc, file, responses, log, caught, outcomes, vs, dirs,
          compressedVideo, extractedAudio, s3, videoUrls, audioUrls, nt, st, ff>>

jobVars   == <<now, published, created, scratch, other>>
httpVars  == <<req, file, responses>>
videoVars == <<vs, dirs, compressedVideo, extractedAudio>>
s3Vars    == <<s3, videoUrls, audioUrls>>

-----------------------------------------------------------------------------
(* Bounds of the model *)

\* largest length of an uploaded buffer; the encoder may produce one byte more
MaxBufLen == 1

\* longest source video of the story flow, in seconds
MaxTotalDuration == 130

\* last reading of the millisecond clock (flow "jobs")
MaxClock == 1

\* publish calls of the second job (flow "jobs")
MaxOtherPublishes == 1

(* Program constants *)

\* s3Service.uploadFile: const maxRetries = 3
maxRetries == 3
\* notificationService: const maxRetries = 3 (both notifiers)
notifyMaxRetries == 3

NoFile  == [present |-> FALSE]
NoError == "none"
Null    == [isNull |-> TRUE]
\* no scratch directory held (tempDir = null)
NoDir   == <<"none", 0>>

-----------------------------------------------------------------------------
(* Helpers *)

\* The object literal / property assignment obj[k] = v
SetKey(obj, k, v) == [x \in (DOMAIN obj) \cup {k} |-> IF x = k THEN v ELSE obj[x]]

EmptyObject == [x \in {} |-> 0]

\* Math.pow(2, n)
RECURSIVE Pow2(_)
Pow2(n) == IF n = 0 THEN 1 ELSE 2 * Pow2(n - 1)


-----------------------------------------------------------------------------
(* Inputs *)

\* A multipart request to POST /api/upload: whether the field "arquivo" is
\* present, whether its declared MIME type starts with "video/", whether its
\* extension is one of videoExtensions, whether it exceeds multer's fileSize
\* limit, whether the text field id_trabalho is present, and its byte length.
Requests ==
    [hasFile : BOOLEAN, mimeVideo : BOOLEAN, extVideo : BOOLEAN,
     overLimit : BOOLEAN, hasId : BOOLEAN, len : 0..MaxBufLen]

NoRequest ==
    [hasFile |-> FALSE, mimeVideo |-> FALSE, extVideo |-> FALSE,
     overLimit |-> FALSE, hasId |-> FALSE, len |-> 0]

\* The pathname of a parsed URL, as its first character followed by the
\* rest: none (an opaque URL such as "foo:"), the root alone, a storage
\* key below the root, and the opaque path of "foo:bar"
Pathnames == {<<>>, <<"/">>, <<"/", "uploads/0-clip.mp4">>, <<"b", "ar">>}

\* req.body.s3Url: absent (undefined or ""), a value new URL() rejects, or
\* a value it parses
S3Urls ==
    {[present |-> FALSE, parses |-> FALSE, pathname |-> <<>>],
     [present |-> TRUE,  parses |-> FALSE, pathname |-> <<>>]}
    \cup {[present |-> TRUE, parses |-> TRUE, pathname |-> p] : p \in Pathnames}

\* The JSON body of a request to the generateDownloadUrl handler
DownloadRequests == [s3Url : S3Urls, filename : BOOLEAN]

\* process.env: development flag, NOTIFICATION_ENDPOINT, ERROR_WEBHOOK_URL and
\* the two payload field names with their defaults.
Configs ==
    [isDev : BOOLEAN, endpoint : BOOLEAN, errorWebhook : BOOLEAN,
     fileUrlField : {"fileUrl"}, idTrabalhoField : {"idTrabalho"}]

\* The keys the completion payload always or sometimes has
PayloadKeys == {"link_video_editado_view", "audioDownloadUrl", "audioViewUrl"}

\* Values of NOTIFICATION_FILE_URL_FIELD and NOTIFICATION_ID_TRABALHO_FIELD:
\* the defaults, a name of the operator's own, and the fixed payload keys
FileUrlFields   == {"fileUrl", "video_url"} \cup PayloadKeys
IdTrabalhoFields == {"idTrabalho", "fileUrl", "video_url"} \cup PayloadKeys

\* Flow "notify": every configuration of the two field names, with and
\* without an endpoint
FieldConfigs ==
    [isDev : {FALSE}, endpoint : BOOLEAN, errorWebhook : {FALSE},
     fileUrlField : FileUrlFields, idTrabalhoField : IdTrabalhoFields]

\* Flow "notify": the argument of notifyFileUploaded, with and without the
\* audio URLs
NotifyParams ==
    {[videoDownloadUrl |-> [url |-> "video", disposition |-> "attachment"],
      videoViewUrl     |-> [url |-> "video", disposition |-> "inline"],
      audioDownloadUrl |-> a[1],
      audioViewUrl     |-> a[2],
      id_trabalho      |-> [id |-> "id_trabalho"]] :
        a \in {<<Null, Null>>,
               <<[url |-> "audio", disposition |-> "attachment"],
                 [url |-> "audio", disposition |-> "inline"]>>}}

DefaultConfig ==
    [isDev |-> FALSE, endpoint |-> TRUE, errorWebhook |-> TRUE,
     fileUrlField |-> "fileUrl", idTrabalhoField |-> "idTrabalho"]

\* Flow "jobs": a valid request, production storage, no webhook configured
ValidRequest ==
    [hasFile |-> TRUE, mimeVideo |-> TRUE, extVideo |-> TRUE,
     overLimit |-> FALSE, hasId |-> TRUE, len |-> 0]

QuietConfig ==
    [isDev |-> FALSE, endpoint |-> FALSE, errorWebhook |-> FALSE,
     fileUrlField |-> "fileUrl", idTrabalhoField |-> "idTrabalho"]

\* req.file.originalname as <<name, extension>>: the request of the modelled
\* job, and the names the second job's request may carry
originalname == <<"clip", "mp4">>

OtherNames == {<<"clip", "mov">>, <<"other", "mp4">>}

\* Flow "invoke": the function whose ffmpeg invocation is followed
Invocations == [op : {"compressVideo", "processSegment"}]

\* One ffmpeg invocation inside `new Promise((resolve, reject) => ...)`:
\* promise is the state of the promise, calls the resolve / reject calls made
\* so far, timer the setTimeout handle, proc the subprocess, pending the
\* event the command will emit next, handled the events whose listeners ran,
\* kills the number of kill('SIGKILL') calls.
FfIdle == [pc |-> "idle", op |-> "none", promise |-> "pending", calls |-> <<>>,
           timer |-> "none", ms |-> 0, proc |-> "none", pending |-> "none",
           handled |-> <<>>, kills |-> 0]

\* Flow "publish": the arguments of s3Service.uploadFile
PublishArgs ==
    [fileBuffer : {[len |-> 1]}, fileName : {<<"clip", "mp4">>},
     forceDownload : BOOLEAN]

\* The two upload jobs of flow "jobs"
Jobs == {"A", "B"}

\* The second job: position, originalname, publish calls made
OtherIdle == [pc |-> "idle", originalname |-> originalname, publishes |-> 0]

\* Scratch directory prefixes handed to fs.mkdtemp
DirNames == {"video", "audio", "story"}

Stages == {"compressVideo", "uploadFile.video", "extractAudioMP3",
           "uploadFile.audio", "notifyFileUploaded", "notifyError"}

\* A call record holds the position inside the callee, what it was called
\* with, and how its promise settles: threw = TRUE is a rejection with err,
\* otherwise it resolves to ret.
VsIdle == [pc |-> "idle", op |-> "none", tempDir |-> "null", outLen |-> -1,
           timer |-> 0, proc |-> "none",
           err |-> NoError, threw |-> FALSE, ret |-> Null]

S3Idle == [pc |-> "idle", buffer |-> Null, fileName |-> "none", key |-> "none",
           forceDownload |-> FALSE, retries |-> 0, puts |-> <<>>, signs |-> 0,
           object |-> Null, signed |-> Null,
           waits |-> <<>>, threw |-> FALSE, ret |-> Null]

NtIdle == [pc |-> "idle", fn |-> "none", payload |-> EmptyObject,
           retries |-> 0, posts |-> 0, lastError |-> NoError, errors |-> <<>>,
           waits |-> <<>>, threw |-> FALSE, ret |-> Null]

StIdle == [pc |-> "idle"]

Init ==
    /\ flow \in {"upload", "story", "jobs", "download", "notify", "publish", "invoke"}
    /\ now = 0
    /\ published = <<>>
    /\ created = 0
    /\ scratch = [j \in Jobs |-> NoDir]
    /\ other \in (IF flow = "jobs"
                  THEN {[OtherIdle EXCEPT !.pc = "mkdtemp", !.originalname = n] :
                          n \in OtherNames}
                  ELSE {OtherIdle})
    /\ req \in (CASE flow = "upload"   -> Requests
                  [] flow = "jobs"     -> {ValidRequest}
                  [] flow = "download" -> DownloadRequests
                  [] flow = "notify"   -> NotifyParams
                  [] flow = "publish"  -> PublishArgs
                  [] flow = "invoke"   -> Invocations
                  [] OTHER           -> {NoRequest})
    /\ cfg \in (CASE flow = "upload" -> Configs
                  [] flow = "jobs"   -> {QuietConfig}
                  [] flow = "notify" -> FieldConfigs
                  [] flow = "publish" -> {QuietConfig}
                  [] OTHER           -> {DefaultConfig})
    /\ pc = CASE flow = "story"    -> "story"
              [] flow = "download" -> "downloadUrl"
              [] flow = "notify"   -> "notify"
              [] flow = "publish"  -> "publish"
              [] flow = "invoke"   -> "invoke"
              [] OTHER             -> "received"
    /\ file = NoFile
    /\ responses = <<>>
    /\ log = <<>>
    /\ caught = NoError
    /\ outcomes = [x \in Stages |-> "pending"]
    /\ vs = VsIdle
    /\ dirs = [d \in DirNames |-> "absent"]
    /\ compressedVideo = Null
    /\ extractedAudio = Null
    /\ s3 = S3Idle
    /\ videoUrls = Null
    /\ audioUrls = Null
    /\ nt = NtIdle
    /\ st = StIdle
    /\ ff = FfIdle

-----------------------------------------------------------------------------
(* HTTP layer: routes/uploadRoutes.js and index.js *)

\* multer's fileFilter: accept when the MIME type or the extension is
\* video-like; a recognised extension with another MIME type has its mimetype
\* forced to video/mp4.
fileFilter(f) ==
    LET isVideoMimeType  == f.mimeVideo
        isVideoExtension == f.extVideo
    IN  IF isVideoMimeType \/ isVideoExtension
        THEN [accept |-> TRUE,
              mimeVideo |-> IF isVideoExtension /\ ~isVideoMimeType
                            THEN TRUE ELSE f.mimeVideo]
        ELSE [accept |-> FALSE, mimeVideo |-> f.mimeVideo]

\* index.js global error handler: 413 for multer's LIMIT_FILE_SIZE, else 500
errorHandler(code) ==
    IF code = "LIMIT_FILE_SIZE"
    THEN [status |-> 413, body |-> [error |-> "Arquivo muito grande"]]
    ELSE [status |-> 500, body |-> [error |-> "Erro interno do servidor"]]

\* upload.single('arquivo'): multer parses the body, runs fileFilter on the
\* file part and enforces limits.fileSize; an error goes to the error handler,
\* otherwise the handler runs with req.file set (or unset when no file came).
upload_single ==
    /\ pc = "received"
    /\ IF ~req.hasFile
       THEN /\ file' = NoFile
            /\ pc' = "handler"
            /\ UNCHANGED responses
       ELSE LET f == fileFilter(req) IN
            IF ~f.accept
            THEN /\ responses' = Append(responses, errorHandler("Error"))
                 /\ pc' = "closed"
                 /\ UNCHANGED file
            ELSE IF req.overLimit
            THEN /\ responses' = Append(responses, errorHandler("LIMIT_FILE_SIZE"))
                 /\ pc' = "closed"
                 /\ UNCHANGED file
            ELSE /\ file' = [present |-> TRUE,
                             buffer |-> [src |-> "original", len |-> req.len],
                             mimeVideo |-> f.mimeVideo]
                 /\ pc' = "handler"
                 /\ UNCHANGED responses
    /\ UNCHANGED <<flow, ff, jobVars, req, cfg, log, caught, outcomes, videoVars, s3Vars, nt, st>>

\* The 200 acknowledgment of uploadFile
Ack == [status |-> 200,
        body |-> [success |-> TRUE,
                  message |-> "Arquivo recebido. Processamento iniciado.",
                  id_trabalho |-> "id_trabalho"]]

BadRequest(msg) == [status |-> 400, body |-> [error |-> msg]]

\* uploadFile answering only once the processing is over
uploadFileLate ==
    /\ pc = "handler"
    /\ IF ~file.present
       THEN /\ responses' = Append(responses, BadRequest("No file uploaded"))
            /\ pc' = "closed"
       ELSE IF ~req.hasId
       THEN /\ responses' = Append(responses, BadRequest("Missing required field: id_trabalho"))
            /\ pc' = "closed"
       ELSE IF ~file.mimeVideo
       THEN /\ responses' = Append(responses, BadRequest("Apenas arquivos de video"))
            /\ pc' = "closed"
       ELSE /\ UNCHANGED responses
            /\ pc' = "bg_start"
    /\ UNCHANGED <<flow, ff, jobVars, req, cfg, file, log, caught, outcomes, videoVars, s3Vars, nt, st>>

\* uploadFile without the id_trabalho validation
uploadFileNoIdCheck ==
    /\ pc = "handler"
    /\ IF ~file.present
       THEN /\ responses' = Append(responses, BadRequest("No file uploaded"))
            /\ pc' = "closed"
       ELSE IF ~file.mimeVideo
       THEN /\ responses' = Append(responses, BadRequest("Apenas arquivos de video"))
            /\ pc' = "closed"
       ELSE /\ responses' = Append(responses, Ack)
            /\ pc' = "bg_start"
    /\ UNCHANGED <<flow, ff, jobVars, req, cfg, file, log, caught, outcomes, videoVars, s3Vars, nt, st>>

\* uploadFile whose id_trabalho validation answers without returning, so
\* that the acknowledgment follows the 400
uploadFileNoReturn ==
    /\ pc = "handler"
    /\ IF ~file.present
       THEN /\ responses' = Append(responses, BadRequest("No file uploaded"))
            /\ pc' = "closed"
       ELSE IF ~file.mimeVideo
       THEN /\ responses' = Append(responses, BadRequest("Apenas arquivos de video"))
            /\ pc' = "closed"
       ELSE /\ responses' =
                 IF ~req.hasId
                 THEN responses \o <<BadRequest("Missing required field: id_trabalho"), Ack>>
                 ELSE Append(responses, Ack)
            /\ pc' = "bg_start"
    /\ UNCHANGED <<flow, ff, jobVars, req, cfg, file, log, caught, outcomes, videoVars, s3Vars, nt, st>>

\* controllers/uploadController.js uploadFile, the synchronous part: the three
\* validations, then the acknowledgment; the background task is launched next.
uploadFile ==
    /\ pc = "handler"
    /\ IF ~file.present
       THEN /\ responses' = Append(responses, BadRequest("No file uploaded"))
            /\ pc' = "closed"
       ELSE IF ~req.hasId
       THEN /\ responses' = Append(responses, BadRequest("Missing required field: id_trabalho"))
            /\ pc' = "closed"
       ELSE IF ~file.mimeVideo
       THEN /\ responses' = Append(responses, BadRequest("Apenas arquivos de video"))
            /\ pc' = "closed"
       ELSE /\ responses' = Append(responses, Ack)
            /\ pc' = "bg_start"
    /\ UNCHANGED <<flow, ff, jobVars, req, cfg, file, log, caught, outcomes, videoVars, s3Vars, nt, st>>

-----------------------------------------------------------------------------
(* services/videoService.js *)

\* Outcomes of exec('ffmpeg -version'): the callback runs without error, the
\* callback runs with an error, or exec itself throws (the child cannot be
\* spawned), which rejects the promise.
ExecOutcomes == {"ok", "error", "throw"}

isFFmpegInstalled(o) ==
    CASE o = "ok"    -> [threw |-> FALSE, value |-> TRUE]
      [] o = "error" -> [threw |-> FALSE, value |-> FALSE]
      [] o = "throw" -> [threw |-> TRUE,  value |-> FALSE]

\* Outcomes of one ffmpeg run guarded by its timer
EncodeOutcomes == {"end", "error", "timeout"}

\* The delays of the kill timers, in milliseconds
compressTimeout == 10 * 60 * 1000
extractTimeout  == 5 * 60 * 1000
segmentTimeout  == 5 * 60 * 1000

\* a timer that rejects and leaves the child running
SubprocessLeftRunning(o) == IF o = "timeout" THEN "running" ELSE "exited"

\* What became of the ffmpeg child: on 'end' and on 'error' it has exited,
\* and when the timer fires first it is sent ffmpegProcess.kill('SIGKILL')
Subprocess(o) == IF o = "timeout" THEN "SIGKILL" ELSE "exited"

\* The call record c after an ffmpeg run with a timer of ms milliseconds
ffmpegRun(c, o, ms) == [c EXCEPT !.timer = ms, !.proc = Subprocess(o)]

videoBuffer == file.buffer

\* a catch that returns an empty video in place of the original
compressVideo_catchEmpty(err) ==
    [vs EXCEPT !.pc = "finally", !.err = err,
               !.ret = [isNull |-> FALSE, buffer |-> [src |-> "empty", len |-> 0],
                        mimetype |-> "video/mp4"]]

\* a catch that lets the error escape compressVideo
compressVideo_catchRethrow(err) ==
    [vs EXCEPT !.pc = "finally", !.err = err, !.threw = TRUE]

\* compressVideo's catch: log, and return the original video
compressVideo_catch(err) ==
    [vs EXCEPT !.pc = "finally", !.err = err,
               !.ret = [isNull |-> FALSE, buffer |-> videoBuffer, mimetype |-> "video/mp4"]]

compressVideo_probe ==
    /\ vs.op = "compress" /\ vs.pc = "probe"
    /\ \E o \in ExecOutcomes :
         LET r == isFFmpegInstalled(o) IN
         vs' = IF r.threw THEN compressVideo_catch("spawn")
               ELSE IF ~r.value THEN compressVideo_catch("EncoderUnavailable")
               ELSE [vs EXCEPT !.pc = "mkdtemp"]
    /\ UNCHANGED <<flow, ff, jobVars, httpVars, cfg, pc, log, caught, outcomes, dirs, compressedVideo,
                   extractedAudio, s3Vars, nt, st>>

\* fs.mkdtemp(prefix): creates a directory whose name no existing directory
\* has; the six random characters are the creation count here
mkdtemp(prefix) == <<prefix, created + 1>>

\* job j holds the directory fs.mkdtemp(prefix) has just created
acquire(j, prefix) ==
    /\ created' = created + 1
    /\ scratch' = [scratch EXCEPT ![j] = mkdtemp(prefix)]

\* job j is through with its directory (its finally block has run)
release(j) == scratch' = [scratch EXCEPT ![j] = NoDir]

compressVideo_mkdtemp ==
    /\ vs.op = "compress" /\ vs.pc = "mkdtemp"
    /\ \E ok \in BOOLEAN :
         IF ok
         THEN /\ vs' = [vs EXCEPT !.pc = "writeFile", !.tempDir = "video"]
              /\ dirs' = [dirs EXCEPT !["video"] = "present"]
              /\ acquire("A", "video")
         ELSE /\ vs' = compressVideo_catch("mkdtemp")
              /\ UNCHANGED <<dirs, created, scratch>>
    /\ UNCHANGED <<flow, ff, now, published, other, httpVars, cfg, pc, log, caught, outcomes, compressedVideo,
                   extractedAudio, s3Vars, nt, st>>

compressVideo_writeFile ==
    /\ vs.op = "compress" /\ vs.pc = "writeFile"
    /\ \E ok \in BOOLEAN :
         vs' = IF ok THEN [vs EXCEPT !.pc = "ffmpeg"]
               ELSE compressVideo_catch("writeFile")
    /\ UNCHANGED <<flow, ff, jobVars, httpVars, cfg, pc, log, caught, outcomes, dirs, compressedVideo,
                   extractedAudio, s3Vars, nt, st>>

\* The ffmpeg run and its 10 minute timer
compressVideo_ffmpeg ==
    /\ vs.op = "compress" /\ vs.pc = "ffmpeg"
    /\ \E o \in EncodeOutcomes :
         vs' = IF o = "end" THEN ffmpegRun([vs EXCEPT !.pc = "pathExists"], o, compressTimeout)
               ELSE ffmpegRun(compressVideo_catch(o), o, compressTimeout)
    /\ UNCHANGED <<flow, ff, jobVars, httpVars, cfg, pc, log, caught, outcomes, dirs, compressedVideo,
                   extractedAudio, s3Vars, nt, st>>

compressVideo_pathExists ==
    /\ vs.op = "compress" /\ vs.pc = "pathExists"
    /\ \E outputExists \in BOOLEAN :
         vs' = IF outputExists THEN [vs EXCEPT !.pc = "readFile"]
               ELSE compressVideo_catch("noOutput")
    /\ UNCHANGED <<flow, ff, jobVars, httpVars, cfg, pc, log, caught, outcomes, dirs, compressedVideo,
                   extractedAudio, s3Vars, nt, st>>

\* the size comparison the wrong way round
chooseSmallerFlipped(original, compressed) ==
    IF compressed.len < original.len THEN original ELSE compressed

\* The buffer compressVideo returns once the output was read: the original
\* when the compressed one is larger, else the compressed one.
chooseSmaller(original, compressed) ==
    IF compressed.len > original.len THEN original ELSE compressed

compressVideo_readFile ==
    /\ vs.op = "compress" /\ vs.pc = "readFile"
    /\ \E ok \in BOOLEAN, n \in 0..(MaxBufLen + 1) :
         vs' = IF ~ok THEN compressVideo_catch("readFile")
               ELSE LET compressedBuffer == [src |-> "encoded", len |-> n] IN
                    [vs EXCEPT !.pc = "finally", !.outLen = n,
                               !.ret = [isNull |-> FALSE,
                                        buffer |-> chooseSmaller(videoBuffer, compressedBuffer),
                                        mimetype |-> "video/mp4"]]
    /\ UNCHANGED <<flow, ff, jobVars, httpVars, cfg, pc, log, caught, outcomes, dirs, compressedVideo,
                   extractedAudio, s3Vars, nt, st>>

\* finally: fs.remove(tempDir) when a directory was created; a failing
\* removal is logged and swallowed, and the directory stays.
removeTempDir(s, ok) ==
    IF s.tempDir = "null" THEN dirs
    ELSE [dirs EXCEPT ![s.tempDir] = IF ok THEN "removed" ELSE "leaked"]

compressVideo_finally ==
    /\ vs.op = "compress" /\ vs.pc = "finally"
    /\ \E ok \in BOOLEAN : dirs' = removeTempDir(vs, ok)
    /\ release("A")
    /\ vs' = [vs EXCEPT !.pc = "returned"]
    /\ UNCHANGED <<flow, ff, now, published, created, other, httpVars, cfg, pc, log, caught, outcomes, compressedVideo,
                   extractedAudio, s3Vars, nt, st>>


\* a catch that lets the error escape extractAudioMP3
extractAudioMP3_catchRethrow(err) ==
    [vs EXCEPT !.pc = "finally", !.err = err, !.threw = TRUE]

\* extractAudioMP3's catch: log, and return null
extractAudioMP3_catch(err) ==
    [vs EXCEPT !.pc = "finally", !.err = err, !.ret = Null]

extractAudioMP3_probe ==
    /\ vs.op = "extract" /\ vs.pc = "probe"
    /\ \E o \in ExecOutcomes :
         LET r == isFFmpegInstalled(o) IN
         vs' = IF r.threw THEN extractAudioMP3_catch("spawn")
               ELSE IF ~r.value THEN extractAudioMP3_catch("EncoderUnavailable")
               ELSE [vs EXCEPT !.pc = "mkdtemp"]
    /\ UNCHANGED <<flow, ff, jobVars, httpVars, cfg, pc, log, caught, outcomes, dirs, compressedVideo,
                   extractedAudio, s3Vars, nt, st>>

extractAudioMP3_mkdtemp ==
    /\ vs.op = "extract" /\ vs.pc = "mkdtemp"
    /\ \E ok \in BOOLEAN :
         IF ok
         THEN /\ vs' = [vs EXCEPT !.pc = "writeFile", !.tempDir = "audio"]
              /\ dirs' = [dirs EXCEPT !["audio"] = "present"]
              /\ acquire("A", "audio")
         ELSE /\ vs' = extractAudioMP3_catch("mkdtemp")
              /\ UNCHANGED <<dirs, created, scratch>>
    /\ UNCHANGED <<flow, ff, now, published, other, httpVars, cfg, pc, log, caught, outcomes, compressedVideo,
                   extractedAudio, s3Vars, nt, st>>

extractAudioMP3_writeFile ==
    /\ vs.op = "extract" /\ vs.pc = "writeFile"
    /\ \E ok \in BOOLEAN :
         vs' = IF ok THEN [vs EXCEPT !.pc = "ffmpeg"]
               ELSE extractAudioMP3_catch("writeFile")
    /\ UNCHANGED <<flow, ff, jobVars, httpVars, cfg, pc, log, caught, outcomes, dirs, compressedVideo,
                   extractedAudio, s3Vars, nt, st>>

\* The ffmpeg run and its 5 minute timer
extractAudioMP3_ffmpeg ==
    /\ vs.op = "extract" /\ vs.pc = "ffmpeg"
    /\ \E o \in EncodeOutcomes :
         vs' = IF o = "end" THEN ffmpegRun([vs EXCEPT !.pc = "pathExists"], o, extractTimeout)
               ELSE ffmpegRun(extractAudioMP3_catch(o), o, extractTimeout)
    /\ UNCHANGED <<flow, ff, jobVars, httpVars, cfg, pc, log, caught, outcomes, dirs, compressedVideo,
                   extractedAudio, s3Vars, nt, st>>

extractAudioMP3_pathExists ==
    /\ vs.op = "extract" /\ vs.pc = "pathExists"
    /\ \E outputExists \in BOOLEAN :
         vs' = IF outputExists THEN [vs EXCEPT !.pc = "readFile"]
               ELSE extractAudioMP3_catch("noOutput")
    /\ UNCHANGED <<flow, ff, jobVars, httpVars, cfg, pc, log, caught, outcomes, dirs, compressedVideo,
                   extractedAudio, s3Vars, nt, st>>

extractAudioMP3_readFile ==
    /\ vs.op = "extract" /\ vs.pc = "readFile"
    /\ \E ok \in BOOLEAN :
         vs' = IF ~ok THEN extractAudioMP3_catch("readFile")
               ELSE [vs EXCEPT !.pc = "finally",
                               !.ret = [isNull |-> FALSE,
                                        buffer |-> [src |-> "mp3"],
                                        mimetype |-> "audio/mp3"]]
    /\ UNCHANGED <<flow, ff, jobVars, httpVars, cfg, pc, log, caught, outcomes, dirs, compressedVideo,
                   extractedAudio, s3Vars, nt, st>>

\* a finally block whose failed removal replaces the result by its error
extractAudioMP3_finallyPropagates ==
    /\ vs.op = "extract" /\ vs.pc = "finally"
    /\ \E ok \in BOOLEAN :
         /\ dirs' = removeTempDir(vs, ok)
         /\ vs' = IF ok \/ vs.tempDir = "null" THEN [vs EXCEPT !.pc = "returned"]
                  ELSE [vs EXCEPT !.pc = "returned", !.threw = TRUE,
                                  !.err = "remove", !.ret = Null]
    /\ release("A")
    /\ UNCHANGED <<flow, ff, now, published, created, other, httpVars, cfg, pc, log, caught, outcomes, compressedVideo,
                   extractedAudio, s3Vars, nt, st>>

extractAudioMP3_finally ==
    /\ vs.op = "extract" /\ vs.pc = "finally"
    /\ \E ok \in BOOLEAN : dirs' = removeTempDir(vs, ok)
    /\ release("A")
    /\ vs' = [vs EXCEPT !.pc = "returned"]
    /\ UNCHANGED <<flow, ff, now, published, created, other, httpVars, cfg, pc, log, caught, outcomes, compressedVideo,
                   extractedAudio, s3Vars, nt, st>>

\* Entry of a videoService call
videoServiceCall(op) == [VsIdle EXCEPT !.pc = "probe", !.op = op]

-----------------------------------------------------------------------------
(* services/s3Service.js *)

\* A URL: host, object key or path, and query
Url(host, key, query) == [host |-> host, key |-> key, query |-> query]

BucketHost  == "bucket.s3.amazonaws.com"
DevHost     == "example-bucket.s3.amazonaws.com"
ErrorHost   == "error-upload.s3.amazonaws.com"

\* key = `uploads/${Date.now()}-${fileName}`, Date.now() reading t
s3Key(t, fileName) == <<"uploads", t, fileName>>

\* `compressed-${originalname.split('.')[0]}.mp4` and
\* `audio-${originalname.split('.')[0]}.mp3`
videoFileName(name) == <<"compressed", name[1], "mp4">>
audioFileName(name) == <<"audio", name[1], "mp3">>

\* Development mode: simulated URLs
devUrls(fileName) ==
    [isNull |-> FALSE,
     downloadUrl |-> Url(DevHost, <<"uploads", "dev", fileName>>, "download=true"),
     viewUrl     |-> Url(DevHost, <<"uploads", "dev", fileName>>, "")]

\* After the last failed attempt: placeholder URLs instead of an error
errorUrls(fileName) ==
    [isNull |-> FALSE,
     downloadUrl |-> Url(ErrorHost, <<"error", fileName>>, "download=true"),
     viewUrl     |-> Url(ErrorHost, <<"error", fileName>>, "")]

\* uploadResult.Location and the signed download URL of the same key
successUrls(key) ==
    [isNull |-> FALSE,
     downloadUrl |-> Url(BucketHost, key, "signed;attachment"),
     viewUrl     |-> Url(BucketHost, key, "")]

\* What Date.now() may return: the clock never runs backwards.  Only the
\* flow "jobs" lets time pass between two readings.
DateNow == IF flow = "jobs" THEN now..MaxClock ELSE {now}

\* Entry of uploadFile(fileBuffer, fileName, mimeType, forceDownload); now'
\* is the reading of Date.now() the key is built from
s3UploadFileCall(fileBuffer, fileName, forceDownload) ==
    [S3Idle EXCEPT !.pc = IF cfg.isDev THEN "devDelay" ELSE "put",
                   !.key = IF cfg.isDev THEN "none" ELSE s3Key(now', fileName),
                   !.buffer = fileBuffer,
                   !.fileName = fileName, !.forceDownload = forceDownload]

\* Flow "publish": uploadFile(fileBuffer, fileName, mimeType, forceDownload)
\* is called
s3UploadFile ==
    /\ flow = "publish" /\ pc = "publish"
    /\ now' \in DateNow
    /\ s3' = s3UploadFileCall(req.fileBuffer, req.fileName, req.forceDownload)
    /\ published' = Append(published, [job |-> "A", key |-> s3'.key])
    /\ pc' = "publishCalled"
    /\ UNCHANGED <<flow, ff, created, scratch, other, httpVars, cfg, log, caught, outcomes,
                   videoVars, videoUrls, audioUrls, nt, st>>

\* Development mode: wait 500 ms, return the simulated URLs
s3UploadFile_dev ==
    /\ s3.pc = "devDelay"
    /\ s3' = [s3 EXCEPT !.pc = "returned", !.ret = devUrls(s3.fileName)]
    /\ UNCHANGED <<flow, ff, jobVars, httpVars, cfg, pc, log, caught, outcomes, videoVars,
                   videoUrls, audioUrls, nt, st>>

\* a retry loop that throws once the retries are used up
s3UploadFile_catchThrow(s) ==
    LET retries == s.retries + 1 IN
    IF retries >= maxRetries
    THEN [s EXCEPT !.retries = retries, !.pc = "returned", !.threw = TRUE]
    ELSE [s EXCEPT !.retries = retries, !.pc = "backoff",
                   !.waits = Append(s.waits, Pow2(retries) * 1000)]

\* a backoff computed from the number of failures before this one
s3UploadFile_catchEarlyWait(s) ==
    LET retries == s.retries + 1 IN
    IF retries >= maxRetries
    THEN [s EXCEPT !.retries = retries, !.pc = "returned",
                   !.ret = errorUrls(s.fileName)]
    ELSE [s EXCEPT !.retries = retries, !.pc = "backoff",
                   !.waits = Append(s.waits, Pow2(s.retries) * 1000)]

\* The catch of the retry loop: count the failure; after maxRetries failures
\* return the placeholder, else wait 2^retries seconds and go round again.
s3UploadFile_catch(s) ==
    LET retries == s.retries + 1 IN
    IF retries >= maxRetries
    THEN [s EXCEPT !.retries = retries, !.pc = "returned",
                   !.ret = errorUrls(s.fileName)]
    ELSE [s EXCEPT !.retries = retries, !.pc = "backoff",
                   !.waits = Append(s.waits, Pow2(retries) * 1000)]

\* 3600 * 24 * 7 seconds, the Expires of the signed download URL
sevenDays == 3600 * 24 * 7

\* params of s3.upload: Key, and ContentDisposition
\* `attachment; filename="${fileName}"` only when forceDownload is set
uploadParams(s) ==
    [isNull |-> FALSE, Key |-> s.key,
     ContentDisposition |-> IF s.forceDownload
                            THEN [isNull |-> FALSE, type |-> "attachment",
                                  filename |-> s.fileName]
                            ELSE Null]

\* params of s3.getSignedUrl('getObject', ...) in generateDownloadUrl
signParams(s3Key_, originalFileName, expiresIn) ==
    [isNull |-> FALSE, Key |-> s3Key_, Expires |-> expiresIn,
     ResponseContentDisposition |-> [isNull |-> FALSE, type |-> "attachment",
                                     filename |-> originalFileName]]

\* s3.upload(params).promise()
s3UploadFile_put ==
    /\ s3.pc = "put"
    /\ \E ok \in BOOLEAN :
         LET s == [s3 EXCEPT !.puts = Append(s3.puts, IF ok THEN "ok" ELSE "fail")] IN
         s3' = IF ok THEN [s EXCEPT !.pc = "sign", !.object = uploadParams(s)]
               ELSE s3UploadFile_catch(s)
    /\ UNCHANGED <<flow, ff, jobVars, httpVars, cfg, pc, log, caught, outcomes, videoVars,
                   videoUrls, audioUrls, nt, st>>

\* generateDownloadUrl(key, fileName, 7 days) inside the same try: s3.getSignedUrl
\* either returns the URL or throws, and a throw is rethrown into the loop's catch.
generateDownloadUrl ==
    /\ s3.pc = "sign"
    /\ \E ok \in BOOLEAN :
         LET s == [s3 EXCEPT !.signs = s3.signs + 1] IN
         s3' = IF ok THEN [s EXCEPT !.pc = "returned", !.ret = successUrls(s.key),
                                    !.signed = signParams(s.key, s.fileName, sevenDays)]
               ELSE s3UploadFile_catch(s)
    /\ UNCHANGED <<flow, ff, jobVars, httpVars, cfg, pc, log, caught, outcomes, videoVars,
                   videoUrls, audioUrls, nt, st>>

\* The exponential backoff timer fires
s3UploadFile_backoff ==
    /\ s3.pc = "backoff"
    /\ s3' = [s3 EXCEPT !.pc = "put"]
    /\ UNCHANGED <<flow, ff, jobVars, httpVars, cfg, pc, log, caught, outcomes, videoVars,
                   videoUrls, audioUrls, nt, st>>


-----------------------------------------------------------------------------
(* services/notificationService.js *)

\* Outcomes of one axios.post with its 10 s timeout
PostOutcomes == {"ok", "httpError", "networkError", "timeout"}

Skipped      == [isNull |-> FALSE, status |-> "skipped"]
Delivered    == [isNull |-> FALSE, status |-> "delivered"]
Exhausted(e) == [isNull |-> FALSE, status |-> "error", error |-> e]

\* The completion payload: the two configurable keys, the view URL, and the
\* two audio keys only when an audio download URL was given.
completionPayload(p) ==
    LET base == SetKey(SetKey(SetKey(EmptyObject,
                    cfg.fileUrlField, p.videoDownloadUrl),
                    cfg.idTrabalhoField, p.id_trabalho),
                    "link_video_editado_view", p.videoViewUrl)
    IN  IF p.audioDownloadUrl # Null
        THEN SetKey(SetKey(base, "audioDownloadUrl", p.audioDownloadUrl),
                    "audioViewUrl", p.audioViewUrl)
        ELSE base

\* a notifier that posts whether or not the endpoint is configured
notifyFileUploadedCallNoSkip(p) ==
    [NtIdle EXCEPT !.pc = "post", !.fn = "notifyFileUploaded",
                   !.payload = completionPayload(p)]

\* Entry of notifyFileUploaded(params): skipped at once without an endpoint
notifyFileUploadedCall(p) ==
    IF ~cfg.endpoint
    THEN [NtIdle EXCEPT !.pc = "returned", !.fn = "notifyFileUploaded", !.ret = Skipped]
    ELSE [NtIdle EXCEPT !.pc = "post", !.fn = "notifyFileUploaded",
                        !.payload = completionPayload(p)]

\* The failure payload
errorPayload(p) ==
    [processType |-> p.processType, errorMessage |-> p.errorMessage,
     metadata |-> p.metadata]

\* Entry of notifyError(params): skipped at once without an error webhook
notifyErrorCall(p) ==
    IF ~cfg.errorWebhook
    THEN [NtIdle EXCEPT !.pc = "returned", !.fn = "notifyError", !.ret = Skipped]
    ELSE [NtIdle EXCEPT !.pc = "post", !.fn = "notifyError",
                        !.payload = errorPayload(p)]

\* a retry loop that rethrows the last error once the retries are used up
notifyAttemptThrows(n, o) ==
    IF o = "ok"
    THEN [n EXCEPT !.posts = n.posts + 1, !.pc = "returned", !.ret = Delivered]
    ELSE LET retries == n.retries + 1 IN
         IF retries >= notifyMaxRetries
         THEN [n EXCEPT !.posts = n.posts + 1, !.retries = retries,
                        !.lastError = o, !.errors = Append(n.errors, o),
                        !.pc = "returned", !.threw = TRUE, !.ret = Exhausted(o)]
         ELSE [n EXCEPT !.posts = n.posts + 1, !.retries = retries,
                        !.lastError = o, !.errors = Append(n.errors, o),
                        !.pc = "backoff",
                        !.waits = Append(n.waits, Pow2(retries) * 1000)]

\* a retry loop that reports the first error it met, and tries once more
notifyAttemptFirstError(n, o) ==
    IF o = "ok"
    THEN [n EXCEPT !.posts = n.posts + 1, !.pc = "returned", !.ret = Delivered]
    ELSE LET retries == n.retries + 1
             errors  == Append(n.errors, o) IN
         IF retries > notifyMaxRetries
         THEN [n EXCEPT !.posts = n.posts + 1, !.retries = retries,
                        !.lastError = o, !.errors = errors,
                        !.pc = "returned", !.ret = Exhausted(errors[1])]
         ELSE [n EXCEPT !.posts = n.posts + 1, !.retries = retries,
                        !.lastError = o, !.errors = errors,
                        !.pc = "backoff",
                        !.waits = Append(n.waits, Pow2(retries) * 1000)]

\* One pass of a notifier's retry loop for the POST outcome o
notifyAttempt(n, o) ==
    IF o = "ok"
    THEN [n EXCEPT !.posts = n.posts + 1, !.pc = "returned", !.ret = Delivered]
    ELSE LET retries == n.retries + 1 IN
         IF retries >= notifyMaxRetries
         THEN [n EXCEPT !.posts = n.posts + 1, !.retries = retries,
                        !.lastError = o, !.errors = Append(n.errors, o),
                        !.pc = "returned", !.ret = Exhausted(o)]
         ELSE [n EXCEPT !.posts = n.posts + 1, !.retries = retries,
                        !.lastError = o, !.errors = Append(n.errors, o),
                        !.pc = "backoff",
                        !.waits = Append(n.waits, Pow2(retries) * 1000)]

\* Flow "notify": notifyFileUploaded(params) is called
notifyFileUploaded ==
    /\ flow = "notify" /\ pc = "notify"
    /\ nt' = notifyFileUploadedCall(req)
    /\ pc' = "notifyCalled"
    /\ UNCHANGED <<flow, ff, jobVars, httpVars, cfg, log, caught, outcomes, videoVars, s3Vars, st>>

notifyFileUploaded_post ==
    /\ nt.fn = "notifyFileUploaded" /\ nt.pc = "post"
    /\ \E o \in PostOutcomes : nt' = notifyAttempt(nt, o)
    /\ UNCHANGED <<flow, ff, jobVars, httpVars, cfg, pc, log, caught, outcomes, videoVars, s3Vars, st>>

notifyFileUploaded_backoff ==
    /\ nt.fn = "notifyFileUploaded" /\ nt.pc = "backoff"
    /\ nt' = [nt EXCEPT !.pc = "post"]
    /\ UNCHANGED <<flow, ff, jobVars, httpVars, cfg, pc, log, caught, outcomes, videoVars, s3Vars, st>>

notifyError_post ==
    /\ nt.fn = "notifyError" /\ nt.pc = "post"
    /\ \E o \in PostOutcomes : nt' = notifyAttempt(nt, o)
    /\ UNCHANGED <<flow, ff, jobVars, httpVars, cfg, pc, log, caught, outcomes, videoVars, s3Vars, st>>

notifyError_backoff ==
    /\ nt.fn = "notifyError" /\ nt.pc = "backoff"
    /\ nt' = [nt EXCEPT !.pc = "post"]
    /\ UNCHANGED <<flow, ff, jobVars, httpVars, cfg, pc, log, caught, outcomes, videoVars, s3Vars, st>>

-----------------------------------------------------------------------------
(* controllers/uploadController.js: the background task of uploadFile *)

\* How a settled call is recorded in outcomes
settled(call, failure) ==
    IF failure # NoError THEN failure ELSE IF call.threw THEN "threw" ELSE "ok"

\* The async IIFE starts: it calls isFFmpegInstalled
background_start ==
    /\ pc = "bg_start"
    /\ log' = Append(log, "isFFmpegInstalled")
    /\ pc' = "bg_probe"
    /\ UNCHANGED <<flow, ff, jobVars, httpVars, cfg, caught, outcomes, videoVars, s3Vars, nt, st>>

\* The probe settles: without ffmpeg the task logs and returns; with it,
\* compressVideo is called; a rejected probe lands in the catch.
background_probe ==
    /\ pc = "bg_probe"
    /\ \E o \in ExecOutcomes :
         LET r == isFFmpegInstalled(o) IN
         IF r.threw
         THEN /\ caught' = "spawn"
              /\ pc' = "bg_catch"
              /\ UNCHANGED <<log, vs>>
         ELSE IF ~r.value
         THEN /\ log' = Append(log, "ffmpegNotInstalled")
              /\ pc' = "done"
              /\ UNCHANGED <<vs, caught>>
         ELSE /\ log' = Append(log, "compressVideo")
              /\ vs' = videoServiceCall("compress")
              /\ pc' = "bg_compress"
              /\ UNCHANGED caught
    /\ UNCHANGED <<flow, ff, jobVars, httpVars, cfg, outcomes, dirs, compressedVideo,
                   extractedAudio, s3Vars, nt, st>>

\* compressVideo settled: publish its buffer as the video
background_publishVideo ==
    /\ pc = "bg_compress" /\ vs.pc = "returned"
    /\ outcomes' = [outcomes EXCEPT !["compressVideo"] = settled(vs, vs.err)]
    /\ vs' = VsIdle
    /\ IF vs.threw
       THEN /\ caught' = vs.err
            /\ pc' = "bg_catch"
            /\ UNCHANGED <<log, compressedVideo, s3, now>>
       ELSE /\ now' \in DateNow
            /\ compressedVideo' = vs.ret
            /\ log' = log \o <<"compressVideo.ret", "uploadFile.video">>
            /\ s3' = s3UploadFileCall(vs.ret.buffer, videoFileName(originalname), TRUE)
            /\ pc' = "bg_publishVideo"
            /\ UNCHANGED caught
    /\ published' = IF s3'.key = "none" THEN published
                    ELSE Append(published, [job |-> "A", key |-> s3'.key])
    /\ UNCHANGED <<flow, ff, created, scratch, other, httpVars, cfg, dirs, extractedAudio,
                   videoUrls, audioUrls, nt, st>>

\* a background task that treats the placeholder of a failed publish as an error
background_extractAudioAborts ==
    /\ pc = "bg_publishVideo" /\ s3.pc = "returned"
    /\ outcomes' = [outcomes EXCEPT !["uploadFile.video"] =
                       settled(s3, IF s3.ret = errorUrls(s3.fileName)
                                   THEN "placeholder" ELSE NoError)]
    /\ s3' = S3Idle
    /\ IF s3.threw \/ s3.ret = errorUrls(s3.fileName)
       THEN /\ caught' = "upload"
            /\ pc' = "bg_catch"
            /\ UNCHANGED <<log, videoUrls, vs>>
       ELSE /\ videoUrls' = s3.ret
            /\ log' = log \o <<"uploadFile.video.ret", "extractAudioMP3">>
            /\ vs' = videoServiceCall("extract")
            /\ pc' = "bg_extractAudio"
            /\ UNCHANGED caught
    /\ UNCHANGED <<flow, ff, jobVars, httpVars, cfg, dirs, compressedVideo,
                   extractedAudio, audioUrls, nt, st>>

\* the video publish settled: extract the audio of the original buffer
background_extractAudio ==
    /\ pc = "bg_publishVideo" /\ s3.pc = "returned"
    /\ outcomes' = [outcomes EXCEPT !["uploadFile.video"] =
                       settled(s3, IF s3.ret = errorUrls(s3.fileName)
                                   THEN "placeholder" ELSE NoError)]
    /\ s3' = S3Idle
    /\ IF s3.threw
       THEN /\ caught' = "upload"
            /\ pc' = "bg_catch"
            /\ UNCHANGED <<log, videoUrls, vs>>
       ELSE /\ videoUrls' = s3.ret
            /\ log' = log \o <<"uploadFile.video.ret", "extractAudioMP3">>
            /\ vs' = videoServiceCall("extract")
            /\ pc' = "bg_extractAudio"
            /\ UNCHANGED caught
    /\ UNCHANGED <<flow, ff, jobVars, httpVars, cfg, dirs, compressedVideo,
                   extractedAudio, audioUrls, nt, st>>

\* an audio publish that is started and not awaited
background_publishAudioNoAwait ==
    /\ pc = "bg_extractAudio" /\ vs.pc = "returned"
    /\ outcomes' = [outcomes EXCEPT !["extractAudioMP3"] = settled(vs, vs.err)]
    /\ vs' = VsIdle
    /\ IF vs.threw
       THEN /\ caught' = vs.err
            /\ pc' = "bg_catch"
            /\ UNCHANGED <<log, extractedAudio, s3, now>>
       ELSE /\ extractedAudio' = vs.ret
            /\ UNCHANGED caught
            /\ pc' = "bg_notify"
            /\ IF vs.ret # Null
               THEN /\ now' \in DateNow
                    /\ log' = log \o <<"extractAudioMP3.ret", "uploadFile.audio">>
                    /\ s3' = s3UploadFileCall(vs.ret.buffer, audioFileName(originalname), TRUE)
               ELSE /\ log' = Append(log, "extractAudioMP3.ret")
                    /\ UNCHANGED <<s3, now>>
    /\ published' = IF s3'.key = "none" THEN published
                    ELSE Append(published, [job |-> "A", key |-> s3'.key])
    /\ UNCHANGED <<flow, ff, created, scratch, other, httpVars, cfg, dirs, compressedVideo,
                   videoUrls, audioUrls, nt, st>>

\* extractAudioMP3 settled: publish the MP3 when there is one
background_publishAudio ==
    /\ pc = "bg_extractAudio" /\ vs.pc = "returned"
    /\ outcomes' = [outcomes EXCEPT !["extractAudioMP3"] = settled(vs, vs.err)]
    /\ vs' = VsIdle
    /\ IF vs.threw
       THEN /\ caught' = vs.err
            /\ pc' = "bg_catch"
            /\ UNCHANGED <<log, extractedAudio, s3, now>>
       ELSE /\ extractedAudio' = vs.ret
            /\ UNCHANGED caught
            /\ IF vs.ret # Null
               THEN /\ now' \in DateNow
                    /\ log' = log \o <<"extractAudioMP3.ret", "uploadFile.audio">>
                    /\ s3' = s3UploadFileCall(vs.ret.buffer, audioFileName(originalname), TRUE)
                    /\ pc' = "bg_publishAudio"
               ELSE /\ log' = Append(log, "extractAudioMP3.ret")
                    /\ UNCHANGED <<s3, now>>
                    /\ pc' = "bg_notify"
    /\ published' = IF s3'.key = "none" THEN published
                    ELSE Append(published, [job |-> "A", key |-> s3'.key])
    /\ UNCHANGED <<flow, ff, created, scratch, other, httpVars, cfg, dirs, compressedVideo,
                   videoUrls, audioUrls, nt, st>>

\* the audio publish settled
background_audioPublished ==
    /\ pc = "bg_publishAudio" /\ s3.pc = "returned"
    /\ outcomes' = [outcomes EXCEPT !["uploadFile.audio"] =
                       settled(s3, IF s3.ret = errorUrls(s3.fileName)
                                   THEN "placeholder" ELSE NoError)]
    /\ s3' = S3Idle
    /\ IF s3.threw
       THEN /\ caught' = "upload"
            /\ pc' = "bg_catch"
            /\ UNCHANGED <<log, audioUrls>>
       ELSE /\ audioUrls' = s3.ret
            /\ log' = Append(log, "uploadFile.audio.ret")
            /\ pc' = "bg_notify"
            /\ UNCHANGED caught
    /\ UNCHANGED <<flow, ff, jobVars, httpVars, cfg, videoVars, videoUrls, nt, st>>

\* notifyFileUploaded({...}) with the audio URLs, or null for both
background_notify ==
    /\ pc = "bg_notify"
    /\ log' = Append(log, "notifyFileUploaded")
    /\ nt' = notifyFileUploadedCall(
                [videoDownloadUrl |-> videoUrls.downloadUrl,
                 videoViewUrl     |-> videoUrls.viewUrl,
                 audioDownloadUrl |-> IF audioUrls = Null THEN Null ELSE audioUrls.downloadUrl,
                 audioViewUrl     |-> IF audioUrls = Null THEN Null ELSE audioUrls.viewUrl,
                 id_trabalho      |-> "id_trabalho"])
    /\ pc' = "bg_notified"
    /\ UNCHANGED <<flow, ff, jobVars, httpVars, cfg, caught, outcomes, videoVars, s3Vars, st>>

\* a background task that treats an undelivered completion notification as
\* a failure of the job
background_completeChecksResult ==
    /\ pc = "bg_notified" /\ nt.pc = "returned"
    /\ outcomes' = [outcomes EXCEPT !["notifyFileUploaded"] =
                       settled(nt, IF nt.ret.status = "error" THEN "exhausted" ELSE NoError)]
    /\ IF nt.threw \/ nt.ret.status = "error"
       THEN /\ caught' = "notify"
            /\ pc' = "bg_catch"
            /\ UNCHANGED log
       ELSE /\ log' = Append(log, "notifyFileUploaded.ret")
            /\ pc' = "done"
            /\ UNCHANGED caught
    /\ UNCHANGED <<flow, ff, jobVars, httpVars, cfg, videoVars, s3Vars, nt, st>>

\* the completion notification settled: the task logs and ends
background_complete ==
    /\ pc = "bg_notified" /\ nt.pc = "returned"
    /\ outcomes' = [outcomes EXCEPT !["notifyFileUploaded"] =
                       settled(nt, IF nt.ret.status = "error" THEN "exhausted" ELSE NoError)]
    /\ IF nt.threw
       THEN /\ caught' = "notify"
            /\ pc' = "bg_catch"
            /\ UNCHANGED log
       ELSE /\ log' = Append(log, "notifyFileUploaded.ret")
            /\ pc' = "done"
            /\ UNCHANGED caught
    /\ UNCHANGED <<flow, ff, jobVars, httpVars, cfg, videoVars, s3Vars, nt, st>>

\* catch (error): notifyError({processType: 'upload', ...})
background_catch ==
    /\ pc = "bg_catch"
    /\ log' = Append(log, "notifyError")
    /\ nt' = notifyErrorCall([processType |-> "upload", errorMessage |-> caught,
                              metadata |-> "id_trabalho"])
    /\ pc' = "bg_errorNotified"
    /\ UNCHANGED <<flow, ff, jobVars, httpVars, cfg, caught, outcomes, videoVars, s3Vars, st>>

\* a background task that reports its failure to the HTTP caller as well
background_failedResponds ==
    /\ pc = "bg_errorNotified" /\ nt.pc = "returned"
    /\ outcomes' = [outcomes EXCEPT !["notifyError"] =
                       settled(nt, IF nt.ret.status = "error" THEN "exhausted" ELSE NoError)]
    /\ log' = Append(log, "notifyError.ret")
    /\ responses' = Append(responses, errorHandler("Error"))
    /\ pc' = "done"
    /\ UNCHANGED <<flow, ff, jobVars, req, file, cfg, caught, videoVars, s3Vars, nt, st>>

\* a catch block whose notifyError call has no try / catch of its own and
\* treats an undelivered failure notification as an error
background_failedRethrows ==
    /\ pc = "bg_errorNotified" /\ nt.pc = "returned"
    /\ outcomes' = [outcomes EXCEPT !["notifyError"] =
                       settled(nt, IF nt.ret.status = "error" THEN "exhausted" ELSE NoError)]
    /\ log' = Append(log, "notifyError.ret")
    /\ pc' = IF nt.threw \/ nt.ret.status = "error" THEN "unhandledRejection" ELSE "done"
    /\ UNCHANGED <<flow, ff, jobVars, httpVars, cfg, caught, videoVars, s3Vars, nt, st>>

\* the failure notification settled: the task ends.  A rejection of
\* notifyError is caught by the try / catch around the call and logged.
background_failed ==
    /\ pc = "bg_errorNotified" /\ nt.pc = "returned"
    /\ outcomes' = [outcomes EXCEPT !["notifyError"] =
                       IF nt.threw THEN "threw"
                       ELSE settled(nt, IF nt.ret.status = "error" THEN "exhausted" ELSE NoError)]
    /\ log' = Append(log, IF nt.threw THEN "notifyError.caught" ELSE "notifyError.ret")
    /\ pc' = "done"
    /\ UNCHANGED <<flow, ff, jobVars, httpVars, cfg, caught, videoVars, s3Vars, nt, st>>

-----------------------------------------------------------------------------
(* One ffmpeg invocation, event by event: the promise executor of          *)
(* compressVideo (services/videoService.js) and of processSegment          *)
(* (services/storyService.js)                                              *)

\* what the promise becomes when the call is the one that settles it
Settlement(call) ==
    CASE call = "resolve"        -> "completed"
      [] call = "reject:error"   -> "failed"
      [] call = "reject:timeout" -> "timedOut"

\* a promise that takes the state of the last resolve / reject call
settleLastWins(f, call) ==
    [f EXCEPT !.calls = Append(f.calls, call), !.promise = Settlement(call)]

\* resolve() / reject(err): the first call settles the promise, a later call
\* has no effect
settle(f, call) ==
    [f EXCEPT !.calls = Append(f.calls, call),
              !.promise = IF f.promise = "pending" THEN Settlement(call)
                          ELSE f.promise]

\* clearTimeout(timeout): cancels the timer if it has not fired
clearTimeout(f) ==
    [f EXCEPT !.timer = IF f.timer = "armed" THEN "cleared" ELSE f.timer]

\* The executor: the listeners are attached, the timer is set (10 minutes in
\* compressVideo, 5 minutes in processSegment) and the command is run; no
\* event is delivered before the executor has returned
ffmpeg_run ==
    /\ flow = "invoke" /\ pc = "invoke"
    /\ ff' = [FfIdle EXCEPT !.pc = "running", !.op = req.op,
                            !.timer = "armed",
                            !.ms = IF req.op = "compressVideo" THEN compressTimeout
                                   ELSE segmentTimeout,
                            !.proc = "running"]
    /\ pc' = "invoked"
    /\ UNCHANGED <<flow, jobVars, httpVars, cfg, log, caught, outcomes, videoVars,
                   s3Vars, nt, st>>

\* The subprocess exits by itself, with or without an error: the command
\* will emit 'end' or 'error'
ffmpeg_exit ==
    /\ ff.proc = "running"
    /\ \E ok \in BOOLEAN :
         ff' = [ff EXCEPT !.proc = "exited", !.pending = IF ok THEN "end" ELSE "error"]
    /\ UNCHANGED <<flow, jobVars, httpVars, cfg, pc, log, caught, outcomes, videoVars,
                   s3Vars, nt, st>>

\* .on('end', ...): resolve(), then clearTimeout(timeout)
on_end ==
    /\ ff.pending = "end"
    /\ ff' = [clearTimeout(settle(ff, "resolve"))
                 EXCEPT !.pending = "none", !.handled = Append(ff.handled, "end")]
    /\ UNCHANGED <<flow, jobVars, httpVars, cfg, pc, log, caught, outcomes, videoVars,
                   s3Vars, nt, st>>

\* .on('error', ...): reject(err), then clearTimeout(timeout)
on_error ==
    /\ ff.pending = "error"
    /\ ff' = [clearTimeout(settle(ff, "reject:error"))
                 EXCEPT !.pending = "none", !.handled = Append(ff.handled, "error")]
    /\ UNCHANGED <<flow, jobVars, httpVars, cfg, pc, log, caught, outcomes, videoVars,
                   s3Vars, nt, st>>

\* The callback of setTimeout: kill('SIGKILL'), then reject(new Error(...)).
\* A subprocess that was running dies and the command emits 'error' for it;
\* one that had exited already is not affected and its event is still to
\* be delivered.
setTimeout_callback ==
    /\ ff.timer = "armed"
    /\ ff' = [settle(ff, "reject:timeout")
                 EXCEPT !.timer = "fired", !.kills = ff.kills + 1,
                        !.proc = IF ff.proc = "running" THEN "SIGKILL" ELSE ff.proc,
                        !.pending = IF ff.proc = "running" THEN "error" ELSE ff.pending]
    /\ UNCHANGED <<flow, jobVars, httpVars, cfg, pc, log, caught, outcomes, videoVars,
                   s3Vars, nt, st>>

-----------------------------------------------------------------------------
(* controllers/uploadController.js: generateDownloadUrl(req, res), with    *)
(* s3Service.extractS3KeyFromUrl                                           *)

\* String.prototype.substring(1)
substring1(str) == IF str = <<>> THEN <<>> ELSE Tail(str)

\* extractS3KeyFromUrl(s3Url): new URL(s3Url) throws on a value it cannot
\* parse and the catch returns null; otherwise the pathname without its
\* first character is returned
extractS3KeyFromUrl(s3Url) ==
    IF ~s3Url.parses
    THEN [threw |-> FALSE, ret |-> Null]
    ELSE [threw |-> FALSE, ret |-> [chars |-> substring1(s3Url.pathname)]]

\* !s3Key: null and the empty string are falsy
falsy(v) == v = Null \/ v = [chars |-> <<>>]

UrlsFailed == [status |-> 500, body |-> [error |-> "Failed to generate URLs"]]

SignedUrls == [status |-> 200, body |-> [success |-> TRUE, expiresIn |-> 3600]]

\* a handler that signs whatever the extraction returned
generateDownloadUrl_handlerNoKeyCheck ==
    /\ flow = "download" /\ pc = "downloadUrl"
    /\ IF ~req.s3Url.present
       THEN /\ responses' = Append(responses, BadRequest("Missing required field: s3Url"))
            /\ pc' = "closed"
            /\ UNCHANGED log
       ELSE IF ~req.filename
       THEN /\ responses' = Append(responses, BadRequest("Missing required field: filename"))
            /\ pc' = "closed"
            /\ UNCHANGED log
       ELSE /\ log' = log \o <<"generateDownloadUrl", "generateViewUrl">>
            /\ pc' = "signing"
            /\ UNCHANGED responses
    /\ UNCHANGED <<flow, ff, jobVars, req, cfg, file, caught, outcomes, videoVars, s3Vars, nt, st>>

\* The handler up to its await: the two field checks, the key extraction,
\* and the two signed-URL calls that Promise.all is given
generateDownloadUrl_handler ==
    /\ flow = "download" /\ pc = "downloadUrl"
    /\ LET extracted == extractS3KeyFromUrl(req.s3Url) IN
       IF ~req.s3Url.present
       THEN /\ responses' = Append(responses, BadRequest("Missing required field: s3Url"))
            /\ pc' = "closed"
            /\ UNCHANGED log
       ELSE IF ~req.filename
       THEN /\ responses' = Append(responses, BadRequest("Missing required field: filename"))
            /\ pc' = "closed"
            /\ UNCHANGED log
       ELSE IF extracted.threw
       THEN /\ responses' = Append(responses, UrlsFailed)
            /\ pc' = "closed"
            /\ UNCHANGED log
       ELSE IF falsy(extracted.ret)
       THEN /\ responses' = Append(responses, BadRequest("Invalid S3 URL format"))
            /\ pc' = "closed"
            /\ UNCHANGED log
       ELSE /\ log' = log \o <<"generateDownloadUrl", "generateViewUrl">>
            /\ pc' = "signing"
            /\ UNCHANGED responses
    /\ UNCHANGED <<flow, ff, jobVars, req, cfg, file, caught, outcomes, videoVars, s3Vars, nt, st>>

\* await Promise.all([...]): both URLs are signed and the handler answers
\* 200, or one of the calls rejects and the catch answers 500
generateDownloadUrl_signed ==
    /\ flow = "download" /\ pc = "signing"
    /\ \E downloadOk \in BOOLEAN, viewOk \in BOOLEAN :
         responses' = Append(responses,
                             IF downloadOk /\ viewOk THEN SignedUrls ELSE UrlsFailed)
    /\ pc' = "closed"
    /\ UNCHANGED <<flow, ff, jobVars, req, cfg, file, log, caught, outcomes, videoVars, s3Vars, nt, st>>

-----------------------------------------------------------------------------
(* services/storyService.js *)

\* splitVideoIntoSegments defaults: maxDuration = 60 s; segments shorter
\* than 3 s are skipped
maxDuration == 60
minDuration == 3

\* ceil(a / b) for naturals, b > 0
CeilDiv(a, b) == (a + b - 1) \div b

Min(a, b) == IF a < b THEN a ELSE b

\* A file against maxSize (100 MB): fileSize <= maxSize, or fileSize > maxSize
FileSizes == {"within", "over"}

\* Outcomes of the ffmpeg run of processSegment: without the ffmpeg binary
\* the run can only end in ffmpeg's 'error' event
SegmentOutcomes == IF st.ffmpeg THEN EncodeOutcomes ELSE {"error"}

\* processSegment settles with the ffmpeg run guarded by its 5 minute timer
processSegment(o) == IF o = "end" THEN "resolved" ELSE "rejected"

\* Entry of processStoryVideo(videoUrl)
processStoryVideoCall ==
    [pc |-> "mkdtemp", tempDir |-> "null", totalDuration |-> 0,
     numberOfSegments |-> 0, i |-> 0, segmentPaths |-> <<>>,
     encodes |-> <<>>, sourceSize |-> "unknown", sizes |-> <<>>,
     j |-> 1, segments |-> <<>>,
     ffmpeg |-> TRUE, timer |-> 0, proc |-> "none",
     err |-> NoError, ret |-> "none"]

\* a catch that resolves with the segments read so far
processStoryVideo_catchPartial(s, err) ==
    [s EXCEPT !.pc = "finally", !.err = err, !.ret = "value"]

\* catch (error) { throw error } of processStoryVideo: the error propagates
\* after the finally block
processStoryVideo_catch(s, err) ==
    [s EXCEPT !.pc = "finally", !.err = err, !.ret = "throw"]

processStoryVideo_start ==
    /\ pc = "story" /\ st.pc = "idle"
    /\ \E installed \in BOOLEAN :
         st' = [processStoryVideoCall EXCEPT !.ffmpeg = installed]
    /\ UNCHANGED <<flow, ff, jobVars, httpVars, cfg, pc, log, caught, outcomes, videoVars, s3Vars, nt>>

processStoryVideo_mkdtemp ==
    /\ st.pc = "mkdtemp"
    /\ \E ok \in BOOLEAN :
         IF ok
         THEN /\ st' = [st EXCEPT !.pc = "download", !.tempDir = "story"]
              /\ dirs' = [dirs EXCEPT !["story"] = "present"]
              /\ acquire("A", "story")
         ELSE /\ st' = processStoryVideo_catch(st, "mkdtemp")
              /\ UNCHANGED <<dirs, created, scratch>>
    /\ UNCHANGED <<flow, ff, now, published, other, httpVars, cfg, pc, log, caught, outcomes, vs, compressedVideo,
                   extractedAudio, s3Vars, nt>>

\* What the remote server does with the GET of downloadVideo: the body
\* arrives and the writer finishes, the request or the writer fails, or the
\* server stops sending before the end of the body
DownloadOutcomes == {"finish", "error", "stalled"}

\* downloadVideo(videoUrl, inputPath): axios is called with no timeout
\* option and the promise settles on the writer's 'finish' and 'error'
\* events alone, so a transfer that stalls leaves it pending: no step of
\* the code leaves "downloading"
downloadVideo ==
    /\ st.pc = "download"
    /\ \E o \in DownloadOutcomes :
         st' = CASE o = "finish"  -> [st EXCEPT !.pc = "ensureDir"]
                 [] o = "error"   -> processStoryVideo_catch(st, "download")
                 [] o = "stalled" -> [st EXCEPT !.pc = "downloading"]
    /\ UNCHANGED <<flow, ff, jobVars, httpVars, cfg, pc, log, caught, outcomes, videoVars, s3Vars, nt>>

processStoryVideo_ensureDir ==
    /\ st.pc = "ensureDir"
    /\ \E ok \in BOOLEAN :
         st' = IF ok THEN [st EXCEPT !.pc = "probe"]
               ELSE processStoryVideo_catch(st, "ensureDir")
    /\ UNCHANGED <<flow, ff, jobVars, httpVars, cfg, pc, log, caught, outcomes, videoVars, s3Vars, nt>>

\* a window that is always cut at the maximum duration
WindowPadded(i, lower) ==
    LET startTime == i * maxDuration IN
    [index |-> i + 1, start |-> startTime,
     duration |-> maxDuration,
     lowerBitrate |-> lower]

\* One window of the plan
Window(i, lower) ==
    LET startTime == i * maxDuration IN
    [index |-> i + 1, start |-> startTime,
     duration |-> Min(maxDuration, st.totalDuration - startTime),
     lowerBitrate |-> lower]

\* a no-split check without the 3 s lower bound
splitVideoIntoSegments_durationNoMinimum ==
    /\ st.pc = "probe"
    /\ \E ok \in BOOLEAN, d \in 0..MaxTotalDuration :
         st' = IF ~ok THEN processStoryVideo_catch(st, "ffprobe")
               ELSE IF d <= maxDuration
               THEN [st EXCEPT !.totalDuration = d, !.pc = "stat"]
               ELSE [st EXCEPT !.totalDuration = d, !.pc = "loop",
                               !.numberOfSegments = CeilDiv(d, maxDuration)]
    /\ UNCHANGED <<flow, ff, jobVars, httpVars, cfg, pc, log, caught, outcomes, videoVars, s3Vars, nt>>

\* splitVideoIntoSegments: getVideoDuration(inputPath), then the choice
\* between the no-split check and the loop
splitVideoIntoSegments_duration ==
    /\ st.pc = "probe"
    /\ \E ok \in BOOLEAN, d \in 0..MaxTotalDuration :
         st' = IF ~ok THEN processStoryVideo_catch(st, "ffprobe")
               ELSE IF d >= minDuration /\ d <= maxDuration
               THEN [st EXCEPT !.totalDuration = d, !.pc = "stat"]
               ELSE [st EXCEPT !.totalDuration = d, !.pc = "loop",
                               !.numberOfSegments = CeilDiv(d, maxDuration)]
    /\ UNCHANGED <<flow, ff, jobVars, httpVars, cfg, pc, log, caught, outcomes, videoVars, s3Vars, nt>>

\* getFileSize(inputPath) of a 3..60 s source: within the byte budget the
\* whole video is one segment, else the loop runs
splitVideoIntoSegments_stat ==
    /\ st.pc = "stat"
    /\ \E ok \in BOOLEAN, within \in BOOLEAN :
         st' = IF ~ok THEN processStoryVideo_catch(st, "stat")
               ELSE IF within THEN [st EXCEPT !.pc = "single", !.sourceSize = "within"]
               ELSE [st EXCEPT !.pc = "loop", !.sourceSize = "over",
                               !.numberOfSegments = CeilDiv(st.totalDuration, maxDuration)]
    /\ UNCHANGED <<flow, ff, jobVars, httpVars, cfg, pc, log, caught, outcomes, videoVars, s3Vars, nt>>

\* a single segment cut at the maximum duration instead of the total one
splitVideoIntoSegments_singleMaxWindow ==
    /\ st.pc = "single"
    /\ \E o \in SegmentOutcomes, size \in FileSizes :
         LET w == [index |-> 1, start |-> 0, duration |-> maxDuration,
                   lowerBitrate |-> FALSE] IN
         st' = IF processSegment(o) = "rejected" THEN processStoryVideo_catch(ffmpegRun(st, o, segmentTimeout), o)
               ELSE [ffmpegRun(st, o, segmentTimeout) EXCEPT !.encodes = Append(st.encodes, w),
                               !.sizes = Append(st.sizes, size),
                               !.segmentPaths = <<w>>, !.pc = "readFile"]
    /\ UNCHANGED <<flow, ff, jobVars, httpVars, cfg, pc, log, caught, outcomes, videoVars, s3Vars, nt>>

\* processSegment(inputPath, 'segment-001.mp4', 0, totalDuration); return [outputPath]
splitVideoIntoSegments_single ==
    /\ st.pc = "single"
    /\ \E o \in SegmentOutcomes, size \in FileSizes :
         LET w == [index |-> 1, start |-> 0, duration |-> st.totalDuration,
                   lowerBitrate |-> FALSE] IN
         st' = IF processSegment(o) = "rejected" THEN processStoryVideo_catch(ffmpegRun(st, o, segmentTimeout), o)
               ELSE [ffmpegRun(st, o, segmentTimeout) EXCEPT !.encodes = Append(st.encodes, w),
                               !.sizes = Append(st.sizes, size),
                               !.segmentPaths = <<w>>, !.pc = "readFile"]
    /\ UNCHANGED <<flow, ff, jobVars, httpVars, cfg, pc, log, caught, outcomes, videoVars, s3Vars, nt>>

\* a loop that transcodes every window, however short
splitVideoIntoSegments_loopKeepsTail ==
    /\ st.pc = "loop"
    /\ st' = IF st.i >= st.numberOfSegments THEN [st EXCEPT !.pc = "readFile"]
             ELSE [st EXCEPT !.pc = "encode"]
    /\ UNCHANGED <<flow, ff, jobVars, httpVars, cfg, pc, log, caught, outcomes, videoVars, s3Vars, nt>>

\* for (i = 0; i < numberOfSegments; i++): leave the loop, skip a window
\* shorter than 3 s, or go on to transcode window i
splitVideoIntoSegments_loop ==
    /\ st.pc = "loop"
    /\ st' = IF st.i >= st.numberOfSegments THEN [st EXCEPT !.pc = "readFile"]
             ELSE IF Window(st.i, FALSE).duration < minDuration
             THEN [st EXCEPT !.i = st.i + 1]
             ELSE [st EXCEPT !.pc = "encode"]
    /\ UNCHANGED <<flow, ff, jobVars, httpVars, cfg, pc, log, caught, outcomes, videoVars, s3Vars, nt>>

\* processSegment(inputPath, outputPath, startTime, segmentDuration)
splitVideoIntoSegments_encode ==
    /\ st.pc = "encode"
    /\ \E o \in SegmentOutcomes :
         st' = IF processSegment(o) = "rejected" THEN processStoryVideo_catch(ffmpegRun(st, o, segmentTimeout), o)
               ELSE [ffmpegRun(st, o, segmentTimeout) EXCEPT !.encodes = Append(st.encodes, Window(st.i, FALSE)),
                               !.pc = "size"]
    /\ UNCHANGED <<flow, ff, jobVars, httpVars, cfg, pc, log, caught, outcomes, videoVars, s3Vars, nt>>

\* a size check that leaves out a segment over the budget
splitVideoIntoSegments_sizeDropsOver ==
    /\ st.pc = "size"
    /\ \E ok \in BOOLEAN, fileSize \in FileSizes :
         st' = IF ~ok THEN processStoryVideo_catch(st, "stat")
               ELSE IF fileSize = "over"
               THEN [st EXCEPT !.sizes = Append(st.sizes, fileSize),
                               !.i = st.i + 1, !.pc = "loop"]
               ELSE [st EXCEPT !.sizes = Append(st.sizes, fileSize),
                               !.segmentPaths = Append(st.segmentPaths, Window(st.i, FALSE)),
                               !.i = st.i + 1, !.pc = "loop"]
    /\ UNCHANGED <<flow, ff, jobVars, httpVars, cfg, pc, log, caught, outcomes, videoVars, s3Vars, nt>>

\* getFileSize(outputPath): over the budget the window is transcoded again,
\* else the segment is pushed
splitVideoIntoSegments_size ==
    /\ st.pc = "size"
    /\ \E ok \in BOOLEAN, fileSize \in FileSizes :
         st' = IF ~ok THEN processStoryVideo_catch(st, "stat")
               ELSE IF fileSize = "over"
               THEN [st EXCEPT !.sizes = Append(st.sizes, fileSize), !.pc = "reencode"]
               ELSE [st EXCEPT !.sizes = Append(st.sizes, fileSize),
                               !.segmentPaths = Append(st.segmentPaths, Window(st.i, FALSE)),
                               !.i = st.i + 1, !.pc = "loop"]
    /\ UNCHANGED <<flow, ff, jobVars, httpVars, cfg, pc, log, caught, outcomes, videoVars, s3Vars, nt>>

\* processSegment(inputPath, outputPath, startTime, segmentDuration, true)
splitVideoIntoSegments_reencode ==
    /\ st.pc = "reencode"
    /\ \E o \in SegmentOutcomes :
         st' = IF processSegment(o) = "rejected" THEN processStoryVideo_catch(ffmpegRun(st, o, segmentTimeout), o)
               ELSE [ffmpegRun(st, o, segmentTimeout) EXCEPT !.encodes = Append(st.encodes, Window(st.i, TRUE)),
                               !.pc = "newSize"]
    /\ UNCHANGED <<flow, ff, jobVars, httpVars, cfg, pc, log, caught, outcomes, videoVars, s3Vars, nt>>

\* a second size check that sends a window still over the budget through
\* the encoder once more
splitVideoIntoSegments_newSizeEscalates ==
    /\ st.pc = "newSize"
    /\ \E ok \in BOOLEAN, newFileSize \in FileSizes :
         st' = IF ~ok THEN processStoryVideo_catch(st, "stat")
               ELSE IF newFileSize = "over" /\ Len(st.encodes) < 3
               THEN [st EXCEPT !.sizes = Append(st.sizes, newFileSize), !.pc = "reencode"]
               ELSE [st EXCEPT !.sizes = Append(st.sizes, newFileSize),
                               !.segmentPaths = Append(st.segmentPaths, Window(st.i, TRUE)),
                               !.i = st.i + 1, !.pc = "loop"]
    /\ UNCHANGED <<flow, ff, jobVars, httpVars, cfg, pc, log, caught, outcomes, videoVars, s3Vars, nt>>

\* getFileSize(outputPath) after the second transcode, then segments.push
splitVideoIntoSegments_newSize ==
    /\ st.pc = "newSize"
    /\ \E ok \in BOOLEAN, newFileSize \in FileSizes :
         st' = IF ~ok THEN processStoryVideo_catch(st, "stat")
               ELSE [st EXCEPT !.sizes = Append(st.sizes, newFileSize),
                               !.segmentPaths = Append(st.segmentPaths, Window(st.i, TRUE)),
                               !.i = st.i + 1, !.pc = "loop"]
    /\ UNCHANGED <<flow, ff, jobVars, httpVars, cfg, pc, log, caught, outcomes, videoVars, s3Vars, nt>>

\* String(n) of a natural number, as its decimal digits
RECURSIVE String(_)
String(n) == IF n < 10 THEN <<n>> ELSE Append(String(n \div 10), n % 10)

\* str.padStart(targetLength, padString) for a one-character padString
RECURSIVE padStart(_, _, _)
padStart(str, targetLength, padString) ==
    IF Len(str) >= targetLength THEN str
    ELSE padStart(<<padString>> \o str, targetLength, padString)

\* `segment-${String(i + 1).padStart(3, '0')}.mp4`, the file the splitter
\* writes for window i
segmentName(i) == <<"segment-">> \o padStart(String(i + 1), 3, 0) \o <<".mp4">>

\* an output filename numbered from 0
storyPartNameZeroBased(i) == <<"story-part-">> \o String(i) \o <<".mp4">>

\* `story-part-${i + 1}.mp4`, the filename of the i-th entry of the output
storyPartName(i) == <<"story-part-">> \o String(i + 1) \o <<".mp4">>

\* buffer.length of the segment file of the window numbered index: the size
\* of what the last transcode of that window wrote
outputSize(index) ==
    LET runs == {k \in DOMAIN st.encodes : st.encodes[k].index = index}
    IN  st.sizes[CHOOSE k \in runs : \A m \in runs : m <= k]

\* The read loop of processStoryVideo: fs.readFile(segmentPath), or the
\* return of the segments once every path was read
processStoryVideo_readFile ==
    /\ st.pc = "readFile"
    /\ IF st.j > Len(st.segmentPaths)
       THEN st' = [st EXCEPT !.pc = "finally", !.ret = "value"]
       ELSE \E ok \in BOOLEAN :
              st' = IF ok THEN [st EXCEPT !.pc = "duration"]
                    ELSE processStoryVideo_catch(st, "readFile")
    /\ UNCHANGED <<flow, ff, jobVars, httpVars, cfg, pc, log, caught, outcomes, videoVars, s3Vars, nt>>

\* getVideoDuration(segmentPath), then segments.push({buffer, filename, ...});
\* ffprobe reports the duration of the transcoded window
getVideoDuration ==
    /\ st.pc = "duration"
    /\ \E ok \in BOOLEAN :
         st' = IF ~ok THEN processStoryVideo_catch(st, "ffprobe")
               ELSE [st EXCEPT !.segments =
                                  Append(st.segments,
                                         [part |-> st.j,
                                          path |-> st.segmentPaths[st.j].index,
                                          filename |-> storyPartName(st.j - 1),
                                          fileSize |-> outputSize(st.segmentPaths[st.j].index),
                                          duration |-> st.segmentPaths[st.j].duration]),
                               !.j = st.j + 1, !.pc = "readFile"]
    /\ UNCHANGED <<flow, ff, jobVars, httpVars, cfg, pc, log, caught, outcomes, videoVars, s3Vars, nt>>

\* a cleanup that runs only when the segments were produced
processStoryVideo_finallyOnSuccess ==
    /\ st.pc = "finally"
    /\ \E ok \in BOOLEAN :
         dirs' = IF st.ret = "value" THEN removeTempDir(st, ok) ELSE dirs
    /\ st' = [st EXCEPT !.pc = "returned"]
    /\ UNCHANGED <<flow, ff, jobVars, httpVars, cfg, pc, log, caught, outcomes, vs, compressedVideo,
                   extractedAudio, s3Vars, nt>>

\* finally of processStoryVideo: fs.remove(tempDir) when it was created
processStoryVideo_finally ==
    /\ st.pc = "finally"
    /\ \E ok \in BOOLEAN : dirs' = removeTempDir(st, ok)
    /\ release("A")
    /\ st' = [st EXCEPT !.pc = "returned"]
    /\ UNCHANGED <<flow, ff, now, published, created, other, httpVars, cfg, pc, log, caught, outcomes, vs, compressedVideo,
                   extractedAudio, s3Vars, nt>>

-----------------------------------------------------------------------------
(* Flow "jobs": the second upload job.  It runs the same background task   *)
(* for another request; of it the model keeps the scratch directory it     *)
(* holds and the storage keys of its publish calls, in the order of the    *)
(* code: compressVideo (mkdtemp .. finally), uploadFile of the video,      *)
(* extractAudioMP3 (mkdtemp .. finally), uploadFile of the audio.          *)

\* fs.mkdtemp in compressVideo / extractAudioMP3 of the second job
otherJob_mkdtemp ==
    /\ flow = "jobs" /\ other.pc = "mkdtemp"
    /\ acquire("B", IF other.publishes = 0 THEN "video" ELSE "audio")
    /\ other' = [other EXCEPT !.pc = "finally"]
    /\ UNCHANGED <<flow, ff, now, published, httpVars, cfg, pc, log,
                   caught, outcomes, videoVars, s3Vars, nt, st>>

\* the finally block of compressVideo / extractAudioMP3 of the second job
otherJob_finally ==
    /\ flow = "jobs" /\ other.pc = "finally"
    /\ release("B")
    /\ other' = [other EXCEPT !.pc = "publish"]
    /\ UNCHANGED <<flow, ff, now, published, created, httpVars, cfg, pc, log,
                   caught, outcomes, videoVars, s3Vars, nt, st>>

\* s3Service.uploadFile called by the second job: the key is computed from
\* the clock and the file name
otherJob_uploadFile ==
    /\ flow = "jobs" /\ other.pc = "publish"
    /\ now' \in DateNow
    /\ LET fileName == IF other.publishes = 0
                       THEN videoFileName(other.originalname)
                       ELSE audioFileName(other.originalname)
           n == other.publishes + 1
       IN  /\ published' = Append(published, [job |-> "B", key |-> s3Key(now', fileName)])
           /\ other' = [other EXCEPT !.publishes = n,
                                     !.pc = IF n < MaxOtherPublishes THEN "mkdtemp"
                                            ELSE "done"]
    /\ UNCHANGED <<flow, ff, created, scratch, httpVars, cfg, pc, log,
                   caught, outcomes, videoVars, s3Vars, nt, st>>

-----------------------------------------------------------------------------

Next ==
    \/ upload_single
    \/ uploadFile
    \/ background_start
    \/ background_probe
    \/ compressVideo_probe
    \/ compressVideo_mkdtemp
    \/ compressVideo_writeFile
    \/ compressVideo_ffmpeg
    \/ compressVideo_pathExists
    \/ compressVideo_readFile
    \/ compressVideo_finally
    \/ background_publishVideo
    \/ s3UploadFile_dev
    \/ s3UploadFile_put
    \/ generateDownloadUrl
    \/ s3UploadFile_backoff
    \/ background_extractAudio
    \/ extractAudioMP3_probe
    \/ extractAudioMP3_mkdtemp
    \/ extractAudioMP3_writeFile
    \/ extractAudioMP3_ffmpeg
    \/ extractAudioMP3_pathExists
    \/ extractAudioMP3_readFile
    \/ extractAudioMP3_finally
    \/ background_publishAudio
    \/ background_audioPublished
    \/ background_notify
    \/ notifyFileUploaded_post
    \/ notifyFileUploaded_backoff
    \/ background_complete
    \/ background_catch
    \/ notifyError_post
    \/ notifyError_backoff
    \/ background_failed
    \/ processStoryVideo_start
    \/ processStoryVideo_mkdtemp
    \/ downloadVideo
    \/ processStoryVideo_ensureDir
    \/ splitVideoIntoSegments_duration
    \/ splitVideoIntoSegments_stat
    \/ splitVideoIntoSegments_single
    \/ splitVideoIntoSegments_loop
    \/ splitVideoIntoSegments_encode
    \/ splitVideoIntoSegments_size
    \/ splitVideoIntoSegments_reencode
    \/ splitVideoIntoSegments_newSize
    \/ processStoryVideo_readFile
    \/ getVideoDuration
    \/ processStoryVideo_finally
    \/ otherJob_mkdtemp
    \/ otherJob_finally
    \/ otherJob_uploadFile
    \/ generateDownloadUrl_handler
    \/ generateDownloadUrl_signed
    \/ notifyFileUploaded
    \/ s3UploadFile
    \/ ffmpeg_run
    \/ ffmpeg_exit
    \/ on_end
    \/ on_error
    \/ setTimeout_callback

Spec == Init /\ [][Next]_vars

\* The event loop runs a callback whenever one is ready: as long as some
\* step of the program can be taken, one is taken.
LiveSpec == Spec /\ WF_vars(Next)


-----------------------------------------------------------------------------
(* Properties *)

Has(e) == \E i \in DOMAIN log : log[i] = e

Count(e) == Cardinality({i \in DOMAIN log : log[i] = e})

Handled == flow = "upload" /\ pc \notin {"received", "handler"}

NoBackgroundWork ==
    /\ pc = "closed"
    /\ log = <<>>
    /\ vs = VsIdle /\ s3 = S3Idle /\ nt = NtIdle

Status(n) == Len(responses) = 1 /\ responses[1].status = n

\* C1: every acknowledged upload job that has ended called exactly one of
\* notifyFileUploaded and notifyError, exactly once.
C1_ExactlyOneTerminalNotification ==
    (flow = "upload" /\ pc = "done")
        => Count("notifyFileUploaded") + Count("notifyError") = 1

C4_ProbeAbsentNotifiesError ==
    (flow = "upload" /\ pc = "done" /\ Has("ffmpegNotInstalled")) => Has("notifyError")

CompressFailed == outcomes["compressVideo"] \in {"error", "timeout", "noOutput"}

\* C5, as stated: after a failed compression (encoder error, timeout, missing
\* output) the video is not published, no completion notification is sent and
\* the job ends with the failure notification.
C5_Original ==
    CompressFailed =>
        /\ ~Has("uploadFile.video")
        /\ ~Has("notifyFileUploaded")
        /\ pc = "done" => Has("notifyError")

\* C5, amended: a failed compression is absorbed by compressVideo, which
\* returns the original buffer; that buffer is published as the video, the
\* job goes on to the completion notification and never takes the failure
\* notification path.
C5_CompressFailureFallsBack ==
    CompressFailed =>
        /\ compressedVideo # Null /\ compressedVideo.buffer = file.buffer
        /\ Has("uploadFile.video")
        /\ pc = "bg_publishVideo" => s3.buffer = file.buffer
        /\ ~Has("notifyError")
        /\ pc = "done" => Count("notifyFileUploaded") = 1

C5_Witness ==
    /\ pc = "done" /\ outcomes["compressVideo"] = "timeout"
    /\ Has("uploadFile.video.ret") /\ Has("notifyFileUploaded.ret")

ExtractFailed == outcomes["extractAudioMP3"] \notin {"pending", "ok"}

\* C6: extractAudioMP3 resolves to null, and never rejects, on every failure
\* inside it; the job then publishes no audio, still calls notifyFileUploaded
\* once with a payload that has no audio URL keys, and never calls notifyError.
C6_AudioFailureNonFatal ==
    /\ (vs.op = "extract" /\ vs.pc \in {"finally", "returned"} /\ vs.err # NoError)
           => (~vs.threw /\ vs.ret = Null)
    /\ ExtractFailed =>
           /\ extractedAudio = Null /\ audioUrls = Null
           /\ ~Has("uploadFile.audio")
           /\ ~Has("notifyError")
           /\ pc \in {"bg_notify", "bg_notified", "done"}
           /\ pc \in {"bg_notified", "done"} =>
                 /\ Count("notifyFileUploaded") = 1
                 /\ cfg.endpoint =>
                       /\ cfg.fileUrlField \in DOMAIN nt.payload
                       /\ "audioDownloadUrl" \notin DOMAIN nt.payload
                       /\ "audioViewUrl" \notin DOMAIN nt.payload

C6_Witness ==
    /\ pc = "done" /\ outcomes["extractAudioMP3"] = "error"
    /\ cfg.endpoint /\ nt.fn = "notifyFileUploaded" /\ nt.ret = Delivered
    /\ "audioDownloadUrl" \notin DOMAIN nt.payload

\* C7: the buffer compressVideo returns, which is the buffer handed to the
\* video publish, is never longer than the uploaded buffer; when the encoder
\* output is longer than the upload, it is the uploaded buffer itself.
C7_NeverInflates ==
    /\ (vs.op = "compress" /\ vs.pc \in {"finally", "returned"}) =>
           /\ vs.ret.buffer.len <= file.buffer.len
           /\ vs.outLen > file.buffer.len => vs.ret.buffer = file.buffer
    /\ pc = "bg_publishVideo" =>
           /\ s3.buffer = compressedVideo.buffer
           /\ s3.buffer.len <= file.buffer.len

C7_Witness ==
    /\ pc = "bg_publishVideo" /\ outcomes["compressVideo"] = "ok"
    /\ s3.buffer = file.buffer /\ s3.puts # <<>>

\* C8, as stated: once compressVideo, extractAudioMP3 or processStoryVideo has
\* finished, the scratch directory it created is not on the filesystem.
C8_Original ==
    /\ (vs.pc = "returned" /\ vs.tempDir # "null") => dirs[vs.tempDir] = "removed"
    /\ (st.pc = "returned" /\ st.tempDir # "null") => dirs[st.tempDir] = "removed"

\* C8, amended: on every exit path the removal of the created scratch
\* directory has been attempted by the time the operation finishes, so the
\* directory is gone whenever that removal succeeded; a directory exists
\* with no removal attempted only while the operation that created it runs.
C8_RemovalAttempted ==
    /\ (vs.pc = "returned" /\ vs.tempDir # "null") => dirs[vs.tempDir] \in {"removed", "leaked"}
    /\ (st.pc = "returned" /\ st.tempDir # "null") => dirs[st.tempDir] \in {"removed", "leaked"}
    /\ \A d \in DirNames :
          dirs[d] = "present" =>
              \/ vs.tempDir = d /\ vs.pc \notin {"idle", "returned"}
              \/ st.tempDir = d /\ st.pc \notin {"idle", "returned"}

C8_Witness ==
    /\ st.pc = "returned" /\ st.ret = "throw" /\ st.err = "timeout"
    /\ st.tempDir = "story" /\ dirs["story"] = "removed"

\* C9: when the first k-1 puts of one uploadFile call fail and the k-th
\* succeeds, the call makes exactly k puts and returns the genuine URLs.
C9_SuccessOnKthPut ==
    s3.pc = "returned" =>
        \A k \in 1..maxRetries :
            (/\ Len(s3.puts) >= k
             /\ s3.puts[k] = "ok"
             /\ \A i \in 1..(k - 1) : s3.puts[i] = "fail")
                => (Len(s3.puts) = k /\ ~s3.threw /\ s3.ret = successUrls(s3.key))

AllPutsFailed == s3.puts # <<>> /\ \A i \in DOMAIN s3.puts : s3.puts[i] = "fail"

\* C10: when every put of one uploadFile call fails, the call makes exactly
\* 3 puts, does not reject, and resolves to placeholder URLs on the error
\* host, which no result returned after a successful put and signing uses.
C10_ExhaustionPlaceholder ==
    s3.pc = "returned" =>
        /\ AllPutsFailed =>
              /\ Len(s3.puts) = maxRetries
              /\ ~s3.threw
              /\ s3.ret = errorUrls(s3.fileName)
              /\ s3.ret.viewUrl.host = ErrorHost /\ s3.ret.downloadUrl.host = ErrorHost
        /\ (~s3.threw /\ s3.ret # errorUrls(s3.fileName)) =>
              /\ s3.ret.viewUrl.host # ErrorHost
              /\ s3.ret.downloadUrl.host # ErrorHost

C10_Witness ==
    /\ s3.pc = "returned" /\ s3.puts = <<"fail", "fail", "fail">>
    /\ s3.ret = errorUrls(s3.fileName)

VideoPlaceholder == errorUrls(videoFileName(originalname))

\* C11: when the video publish has used up its retries and returned the
\* placeholder, the job is not aborted: it goes on through the audio
\* extraction to notifyFileUploaded, whose payload carries the placeholder
\* URLs, and notifyError is never called.
C11_StorageFailureDegrades ==
    outcomes["uploadFile.video"] = "placeholder" =>
        /\ videoUrls = VideoPlaceholder
        /\ caught = NoError /\ ~Has("notifyError")
        /\ Has("extractAudioMP3")
        /\ pc \in {"bg_extractAudio", "bg_publishAudio", "bg_notify", "bg_notified", "done"}
        /\ pc \in {"bg_notified", "done"} =>
              /\ Count("notifyFileUploaded") = 1
              /\ cfg.endpoint =>
                    /\ nt.payload[cfg.fileUrlField] = VideoPlaceholder.downloadUrl
                    /\ nt.payload["link_video_editado_view"] = VideoPlaceholder.viewUrl

C11_Witness ==
    /\ pc = "done" /\ outcomes["uploadFile.video"] = "placeholder"
    /\ outcomes["extractAudioMP3"] = "ok"
    /\ cfg.endpoint /\ nt.fn = "notifyFileUploaded" /\ nt.ret = Delivered
    /\ nt.payload[cfg.fileUrlField].host = ErrorHost

\* C12: without NOTIFICATION_ENDPOINT notifyFileUploaded, and without
\* ERROR_WEBHOOK_URL notifyError, returns the skipped outcome at once: the
\* call has returned as soon as it was made and no POST was attempted.
C12_UnconfiguredSkips ==
    /\ (nt.fn = "notifyFileUploaded" /\ ~cfg.endpoint) =>
           (nt.pc = "returned" /\ ~nt.threw /\ nt.ret = Skipped /\ nt.posts = 0)
    /\ (nt.fn = "notifyError" /\ ~cfg.errorWebhook) =>
           (nt.pc = "returned" /\ ~nt.threw /\ nt.ret = Skipped /\ nt.posts = 0)

C12_Witness ==
    /\ pc = "bg_notified" /\ ~cfg.endpoint
    /\ nt.fn = "notifyFileUploaded" /\ nt.ret = Skipped /\ nt.posts = 0

PostErrors == PostOutcomes \ {"ok"}

\* C13: whatever the POSTs do (answer, HTTP error, network error, timeout),
\* a call of notifyFileUploaded or notifyError never rejects: it resolves to
\* skipped, to the endpoint's answer or to the exhausted outcome, and the
\* background task never catches an error of the notifier.
C13_NotifierNeverThrows ==
    /\ ~nt.threw
    /\ nt.pc = "returned" =>
           nt.ret \in {Skipped, Delivered} \cup {Exhausted(e) : e \in PostErrors}
    /\ caught # "notify"
    /\ outcomes["notifyFileUploaded"] # "threw" /\ outcomes["notifyError"] # "threw"

C13_Witness ==
    /\ pc = "done" /\ nt.fn = "notifyError" /\ nt.pc = "returned"
    /\ nt.errors = <<"httpError", "networkError", "timeout">>
    /\ nt.ret = Exhausted("timeout")

\* C14: with its endpoint configured a notification makes at most 3 POSTs;
\* the first POST the endpoint answers ends the call with that answer, and
\* every POST before it had failed; after 3 failed POSTs the call ends with
\* the exhausted outcome carrying the message of the third error.
C14_AtMostThreePosts ==
    nt.pc # "idle" =>
        /\ nt.posts <= notifyMaxRetries
        /\ Len(nt.errors) = nt.retries
        /\ nt.posts = Len(nt.errors) + (IF nt.ret = Delivered THEN 1 ELSE 0)
        /\ nt.ret = Delivered => nt.pc = "returned"
        /\ nt.pc \in {"post", "backoff"} => (nt.ret = Null /\ Len(nt.errors) < notifyMaxRetries)
        /\ Len(nt.errors) = notifyMaxRetries =>
              (nt.pc = "returned" /\ nt.ret = Exhausted(nt.errors[notifyMaxRetries]))
        /\ (nt.pc = "returned" /\ nt.ret \notin {Skipped, Delivered}) =>
              (Len(nt.errors) = notifyMaxRetries /\ nt.ret = Exhausted(nt.errors[notifyMaxRetries]))

C14_Witness ==
    /\ pc = "done" /\ nt.fn = "notifyFileUploaded" /\ nt.pc = "returned"
    /\ nt.posts = 3 /\ nt.errors = <<"timeout", "networkError", "httpError">>
    /\ nt.ret = Exhausted("httpError")

\* C15: when notifyFileUploaded has used up its retries, the job still ends
\* as complete: the task logs its completion and stops, the catch is not
\* entered and notifyError is not called.
C15_NotificationFailureIgnored ==
    /\ (flow \in {"upload", "jobs"} /\ nt.fn = "notifyFileUploaded"
          /\ nt.pc = "returned" /\ nt.ret.status = "error") =>
           (pc \in {"bg_notified", "done"} /\ caught = NoError /\ ~Has("notifyError"))
    /\ outcomes["notifyFileUploaded"] = "exhausted" =>
           /\ pc = "done"
           /\ log[Len(log)] = "notifyFileUploaded.ret"
           /\ caught = NoError /\ ~Has("notifyError")
           /\ outcomes["notifyError"] = "pending"

C15_Witness ==
    /\ pc = "done" /\ outcomes["notifyFileUploaded"] = "exhausted"
    /\ nt.ret = Exhausted("networkError")
    /\ Has("uploadFile.audio.ret") /\ log[Len(log)] = "notifyFileUploaded.ret"

\* splitVideoIntoSegments has returned its list of segment paths
SplitReturned ==
    \/ st.pc \in {"readFile", "duration"}
    \/ st.pc \in {"finally", "returned"} /\ st.ret = "value"

\* the source is 3..60 s long and its file is within the byte budget
SingleSegmentCase ==
    /\ st.totalDuration >= minDuration /\ st.totalDuration <= maxDuration
    /\ st.sourceSize = "within"

WholeVideo ==
    [index |-> 1, start |-> 0, duration |-> st.totalDuration, lowerBitrate |-> FALSE]

\* C16: for a source of 3..60 s whose file is within the byte budget,
\* splitVideoIntoSegments returns exactly one segment, which starts at 0 and
\* spans the total duration, after exactly one transcode of that window.
C16_SingleSegment ==
    (SplitReturned /\ SingleSegmentCase) =>
        /\ st.segmentPaths = <<WholeVideo>>
        /\ st.encodes = <<WholeVideo>>
        /\ st.ret = "value" =>
              (Len(st.segments) = 1 /\ st.segments[1].duration = st.totalDuration)

C16_Witness ==
    /\ st.pc = "returned" /\ st.ret = "value"
    /\ st.totalDuration = minDuration /\ st.sourceSize = "within"
    /\ Len(st.segments) = 1 /\ st.segments[1].duration = minDuration

Span(s, d) == [start |-> s, duration |-> d]

LongEnough(w) == w.duration >= minDuration

\* The plan for a source of d seconds: the windows i in [0, ceil(d / 60))
\* with start 60 i and duration min(60, d - start), without those shorter
\* than 3 s
ExpectedWindows(d) ==
    LET all == [k \in 1..CeilDiv(d, maxDuration) |->
                   Span((k - 1) * maxDuration,
                        Min(maxDuration, d - (k - 1) * maxDuration))]
    IN  SelectSeq(all, LongEnough)

\* start and duration of the segments splitVideoIntoSegments returned
Emitted ==
    [k \in 1..Len(st.segmentPaths) |->
        Span(st.segmentPaths[k].start, st.segmentPaths[k].duration)]

\* C17: outside the single-segment case the returned segments are exactly,
\* and in order, the windows of ExpectedWindows: a tail shorter than 3 s is
\* left out and the window before it keeps its 60 s.  130 s gives [0,60),
\* [60,120), [120,130); 121 s gives [0,60), [60,120).
C17_SegmentPlan ==
    (SplitReturned /\ ~SingleSegmentCase) =>
        /\ Emitted = ExpectedWindows(st.totalDuration)
        /\ st.totalDuration = 130 => Emitted = <<Span(0, 60), Span(60, 60), Span(120, 10)>>
        /\ st.totalDuration = 121 => Emitted = <<Span(0, 60), Span(60, 60)>>

C17_Witness ==
    /\ st.pc = "returned" /\ st.ret = "value"
    /\ st.totalDuration = 121 /\ Len(st.segments) = 2
    /\ st.segments[2].duration = maxDuration

\* the transcodes of the window numbered i, as positions in st.encodes
EncodesOf(i) == {k \in DOMAIN st.encodes : st.encodes[k].index = i}

Tier(w, lower) == [w EXCEPT !.lowerBitrate = lower]

\* The size rule for the emitted segment w: its window is transcoded at the
\* normal tier first; if that output is over the budget the same window is
\* transcoded once more at the reduced tier and that result is the segment,
\* whatever its size; otherwise the first output is the segment.
ReencodedOnceIfOver(w) ==
    \E f \in EncodesOf(w.index) :
        /\ st.encodes[f] = Tier(w, FALSE)
        /\ IF st.sizes[f] = "over"
           THEN /\ EncodesOf(w.index) = {f, f + 1}
                /\ st.encodes[f + 1] = Tier(w, TRUE)
                /\ w.lowerBitrate
           ELSE /\ EncodesOf(w.index) = {f}
                /\ ~w.lowerBitrate

\* C18, as stated: the size rule holds for every segment
\* splitVideoIntoSegments returns, the single-segment case included.
C18_Original ==
    SplitReturned =>
        \A m \in DOMAIN st.segmentPaths : ReencodedOnceIfOver(st.segmentPaths[m])

\* C18, amended: the size rule holds for every segment the split loop
\* emits; in the single-segment case the output is not measured: the one
\* transcode at the normal tier is the segment even when it is over the
\* budget.
C18_ReencodeOnce ==
    SplitReturned =>
        IF SingleSegmentCase
        THEN st.segmentPaths = <<WholeVideo>> /\ EncodesOf(1) = {1}
        ELSE \A m \in DOMAIN st.segmentPaths : ReencodedOnceIfOver(st.segmentPaths[m])

C18_Witness ==
    /\ st.pc = "returned" /\ st.ret = "value" /\ ~SingleSegmentCase
    /\ st.totalDuration = maxDuration + minDuration
    /\ st.sizes = <<"within", "over", "over">>
    /\ st.segmentPaths[2].lowerBitrate /\ ~st.segmentPaths[1].lowerBitrate

\* the request passed the validations and was answered with the 200
Acknowledged == flow \in {"upload", "jobs"} /\ pc \notin {"received", "handler", "closed"}

C20_NoSharedResourceNames ==
    /\ \A i, j \in DOMAIN published :
          i # j => published[i].key # published[j].key
    /\ (scratch["A"] # NoDir /\ scratch["B"] # NoDir) => scratch["A"] # scratch["B"]

\* The job was taken on: the upload was acknowledged, or processStoryVideo
\* was entered
TakenOn == Acknowledged \/ (flow = "story" /\ st.pc # "idle")

\* The job is over: the background task has ended, or processStoryVideo has
\* settled
Terminal == (flow # "story" /\ pc = "done") \/ (flow = "story" /\ st.pc = "returned")

\* C21: under a fair event loop every job that was taken on eventually
\* reaches its terminal state, in the upload flow and in the story flow.
C21_EveryJobTerminates == TakenOn ~> Terminal

\* C21, upload flow alone: every acknowledged upload reaches the end of its
\* background task.
C21_UploadTerminates == Acknowledged ~> (pc = "done")

\* The handler has run on a request carrying both fields
Extracted == flow = "download" /\ pc # "downloadUrl" /\ req.s3Url.present /\ req.filename

\* C22: extractS3KeyFromUrl returns null, and does not throw, on every
\* s3Url that does not parse as a URL; and when the extracted key is null or
\* empty the handler answers 400 and has made no signed-URL call.
C22_BadKeyIs400 ==
    /\ \A u \in S3Urls :
          ~u.parses => (~extractS3KeyFromUrl(u).threw /\ extractS3KeyFromUrl(u).ret = Null)
    /\ (Extracted /\ falsy(extractS3KeyFromUrl(req.s3Url).ret))
          => (pc = "closed" /\ Status(400) /\ log = <<>>)

C22_Witness ==
    /\ Extracted /\ ~req.s3Url.parses
    /\ Status(400) /\ log = <<>>

\* Position of the first occurrence of event e in the log
Pos(e) == CHOOSE i \in DOMAIN log : log[i] = e /\ \A k \in 1..(i - 1) : log[k] # e

\* Event b occurs only after event a
Before(a, b) == Has(b) => (Has(a) /\ Pos(a) < Pos(b))

\* The service calls of the background task that are running
Running == {c \in {"vs", "s3", "nt"} :
              CASE c = "vs" -> vs.pc \notin {"idle", "returned"}
                [] c = "s3" -> s3.pc \notin {"idle", "returned"}
                [] c = "nt" -> nt.pc \notin {"idle", "returned"}}

\* C23, amended: the stages of one job run one at a time and each starts
\* only after the output it consumes is available: the video publish after
\* the return of the compression, the audio extraction after the return of
\* the video publish, the audio publish after the return of the extraction,
\* and the notification after the return of every publish call made.
C23_StagesInSequence ==
    (flow \in {"upload", "jobs"}) =>
        /\ Cardinality(Running) <= 1
        /\ Before("compressVideo.ret", "uploadFile.video")
        /\ Before("uploadFile.video.ret", "extractAudioMP3")
        /\ Before("extractAudioMP3.ret", "uploadFile.audio")
        /\ Before("uploadFile.video.ret", "notifyFileUploaded")
        /\ (Has("uploadFile.audio") /\ Has("notifyFileUploaded"))
              => Before("uploadFile.audio.ret", "notifyFileUploaded")

C23_Witness ==
    /\ pc = "done"
    /\ Has("uploadFile.video.ret") /\ Has("uploadFile.audio.ret")
    /\ Has("notifyFileUploaded.ret")

\* C23 as stated: no publish call starts before the compression and the
\* audio extraction have both finished, and the notification is not
\* started before every publish call has returned.
C23_Original ==
    (flow \in {"upload", "jobs"}) =>
        /\ \A p \in {"uploadFile.video", "uploadFile.audio"} :
              /\ Before("compressVideo.ret", p)
              /\ Before("extractAudioMP3.ret", p)
        /\ Before("uploadFile.video.ret", "notifyFileUploaded")
        /\ (Has("uploadFile.audio") /\ Has("notifyFileUploaded"))
              => Before("uploadFile.audio.ret", "notifyFileUploaded")

\* C24: the step that runs the finally block of compressVideo,
\* extractAudioMP3 or processStoryVideo leaves the result of the operation
\* as it was before the removal of the scratch directory was attempted: the
\* same value, or the same error, whether the removal succeeds or fails.
C24_CleanupKeepsResult ==
    [][ /\ (vs.pc = "finally" /\ vs'.pc = "returned")
            => (vs'.ret = vs.ret /\ vs'.threw = vs.threw /\ vs'.err = vs.err)
        /\ (st.pc = "finally" /\ st'.pc = "returned")
            => (st'.ret = st.ret /\ st'.err = st.err /\ st'.segments = st.segments)
      ]_vars

\* an extraction returned its MP3 although the removal of its scratch
\* directory failed
C24_Witness ==
    /\ vs.pc = "returned" /\ vs.op = "extract"
    /\ dirs["audio"] = "leaked"
    /\ ~vs.threw /\ vs.ret # Null

\* s is the beginning of t
IsPrefix(s, t) == Len(s) <= Len(t) /\ \A i \in DOMAIN s : s[i] = t[i]

\* The publish call, or the notifier call, has used up its attempts
S3Exhausted == s3.pc = "returned" /\ s3.retries = maxRetries
NtExhausted == nt.pc = "returned" /\ nt.retries = notifyMaxRetries

RECURSIVE SumDurations(_)
SumDurations(segs) ==
    IF segs = <<>> THEN 0 ELSE Head(segs).duration + SumDurations(Tail(segs))

\* C26: whatever the total duration and the file sizes, the durations of the
\* segments splitVideoIntoSegments returns add up to at most the total
\* duration, and each of them is at least 3 s; the same holds of the
\* segments processStoryVideo hands back.
C26_PlanWithinTotal ==
    SplitReturned =>
        /\ SumDurations(st.segmentPaths) <= st.totalDuration
        /\ \A k \in DOMAIN st.segmentPaths : st.segmentPaths[k].duration >= minDuration
        /\ SumDurations(st.segments) <= st.totalDuration
        /\ \A k \in DOMAIN st.segments : st.segments[k].duration >= minDuration

\* a 121 s source: two segments of 60 s, the 1 s tail left out
C26_Witness ==
    /\ st.pc = "returned" /\ st.ret = "value"
    /\ st.totalDuration = 2 * maxDuration + 1
    /\ SumDurations(st.segments) = 2 * maxDuration

\* The list of windows as a function of the inputs of the planner: the
\* total duration and whether the source file is within the byte budget
\* (maxDuration and the 3 s minimum are fixed)
PlanOf(d, withinBudget) ==
    IF d >= minDuration /\ d <= maxDuration /\ withinBudget
    THEN <<Span(0, d)>>
    ELSE ExpectedWindows(d)

\* C27: the list of segment windows splitVideoIntoSegments returns is a
\* function of the total duration and the source size alone: every run on
\* the same inputs returns PlanOf of them, whatever the transcodes produced
\* and whatever sizes were measured on the way.
C27_PlanIsFunctionOfInputs ==
    SplitReturned =>
        Emitted = PlanOf(st.totalDuration, st.sourceSize = "within")

\* a run in which one output was over the budget and another within it
C27_Witness ==
    /\ st.pc = "returned" /\ st.ret = "value"
    /\ st.totalDuration = MaxTotalDuration
    /\ \E a, b \in DOMAIN st.sizes : st.sizes[a] = "over" /\ st.sizes[b] = "within"
    /\ Emitted = PlanOf(st.totalDuration, FALSE)

\* The timer of the running encoder operation fired before ffmpeg ended
CompressTimedOut == vs.op = "compress" /\ vs.err = "timeout"
ExtractTimedOut  == vs.op = "extract" /\ vs.err = "timeout"
SegmentTimedOut  == st.pc # "idle" /\ st.err = "timeout"

\* C28, amended: every ffmpeg run is guarded by a timer of 10 minutes
\* (compression) or 5 minutes (audio extraction, each segment); when the
\* timer fires the child is sent SIGKILL and the run is rejected with a
\* timeout error.  Only the segment transcode reports that error to its
\* caller; compressVideo answers it with the original video and
\* extractAudioMP3 with null.
C28_TimersKill ==
    /\ compressTimeout = 600000 /\ extractTimeout = 300000 /\ segmentTimeout = 300000
    /\ vs.proc # "none"
          => vs.timer = (IF vs.op = "compress" THEN compressTimeout ELSE extractTimeout)
    /\ (st.pc # "idle" /\ st.proc # "none") => st.timer = segmentTimeout
    /\ CompressTimedOut
          => (vs.proc = "SIGKILL" /\ ~vs.threw /\ vs.ret.buffer = videoBuffer)
    /\ ExtractTimedOut => (vs.proc = "SIGKILL" /\ ~vs.threw /\ vs.ret = Null)
    /\ SegmentTimedOut => (st.proc = "SIGKILL" /\ st.ret = "throw")

\* a compression killed by its timer has returned the original video
C28_Witness ==
    /\ CompressTimedOut /\ vs.pc = "returned"
    /\ vs.proc = "SIGKILL" /\ vs.timer = compressTimeout
    /\ vs.ret.buffer = videoBuffer

\* C28 as stated: when the timer of an encoder operation fires, the child
\* is killed and the operation fails with the timeout error, which its
\* caller receives.
C28_Original ==
    /\ (CompressTimedOut \/ ExtractTimedOut) => (vs.proc = "SIGKILL" /\ vs.threw)
    /\ SegmentTimedOut => (st.proc = "SIGKILL" /\ st.ret = "throw")

\* processSegment has started an ffmpeg run: one that ended, or one that
\* failed
SegmentRunAttempted ==
    st.pc # "idle" /\ (st.encodes # <<>> \/ st.err \in {"error", "timeout"})

\* C29: an encoder operation that finds the engine absent starts no ffmpeg
\* run: compressVideo and extractAudioMP3 that end with the
\* encoder-unavailable failure have started none, and without the ffmpeg
\* binary no segment transcode is attempted.
C29_NoRunWithoutEngine ==
    /\ vs.err = "EncoderUnavailable" => (vs.proc = "none" /\ vs.tempDir = "null")
    /\ (flow = "story" /\ st.pc # "idle" /\ ~st.ffmpeg) => ~SegmentRunAttempted

\* C29, for compressVideo and extractAudioMP3 alone: the probe comes first
\* and an absent engine ends the call before any scratch directory or ffmpeg
\* run.
C29_VideoServiceProbes ==
    vs.err = "EncoderUnavailable" => (vs.proc = "none" /\ vs.tempDir = "null")

\* The stages of the background task whose call was rejected
Rejected == {x \in Stages : outcomes[x] = "threw"}

\* C30: the promise of the background task never rejects.  Every rejection
\* inside the body is taken by the catch block (the task is in it, or has
\* been through it), the failure notification is called from there, and
\* the task ends at "done" however that notification ends, its own failure
\* included; no state of an acknowledged job other than "done" is final.
C30_BackgroundNeverRejects ==
    /\ pc # "unhandledRejection"
    /\ (caught # NoError \/ Rejected # {})
          => (caught # NoError /\ pc \in {"bg_catch", "bg_errorNotified", "done"})
    /\ (pc = "done" /\ caught # NoError)
          => (Has("notifyError") /\ outcomes["notifyError"] # "pending")
    /\ (Acknowledged /\ pc # "done") => ENABLED Next

\* the body failed, the failure notification failed too, and the task ended
C30_Witness ==
    /\ pc = "done" /\ caught # NoError
    /\ outcomes["notifyError"] = "exhausted"
    /\ Len(nt.errors) = notifyMaxRetries

\* processStoryVideo has returned its list of segments
StoryReturned == st.pc = "returned" /\ st.ret = "value"

\* The index field of a filename: what stands between the stem and ".mp4"
IndexField(filename) == SubSeq(filename, 2, Len(filename) - 1)

\* The number a sequence of decimal digits denotes
RECURSIVE Number(_)
Number(digits) ==
    IF digits = <<>> THEN 0
    ELSE 10 * Number(SubSeq(digits, 1, Len(digits) - 1)) + digits[Len(digits)]

\* C31: the story output lists the segments in increasing start-offset
\* order; entry k is named story-part-{k}.mp4 with k counted from 1 and
\* written with leading zeros (a one-digit index does not stand alone), and
\* carries the byte size of its file and its duration.
C31_OutputTagged ==
    StoryReturned =>
        /\ Len(st.segments) = Len(st.segmentPaths)
        /\ \A k \in DOMAIN st.segments :
              /\ Head(st.segments[k].filename) = "story-part-"
              /\ Number(IndexField(st.segments[k].filename)) = k
              /\ Len(IndexField(st.segments[k].filename)) > 1
              /\ Head(IndexField(st.segments[k].filename)) = 0
              /\ st.segments[k].fileSize \in FileSizes
              /\ st.segments[k].duration = st.segmentPaths[k].duration
        /\ \A k \in 1..(Len(st.segments) - 1) :
              st.segmentPaths[k].start < st.segmentPaths[k + 1].start

\* C31 without the padding: order, 1-based index, byte size and duration
C31_OutputTaggedUnpadded ==
    StoryReturned =>
        /\ Len(st.segments) = Len(st.segmentPaths)
        /\ \A k \in DOMAIN st.segments :
              /\ st.segments[k].filename = <<"story-part-">> \o String(k) \o <<".mp4">>
              /\ Number(IndexField(st.segments[k].filename)) = k
              /\ st.segments[k].fileSize \in FileSizes
              /\ st.segments[k].duration = st.segmentPaths[k].duration
        /\ \A k \in 1..(Len(st.segments) - 1) :
              st.segmentPaths[k].start < st.segmentPaths[k + 1].start

\* notifyFileUploaded has built its payload
PayloadBuilt == nt.fn = "notifyFileUploaded" /\ nt.pc # "idle" /\ cfg.endpoint

\* C32: under every configuration of the two field names the completion
\* payload holds the video download URL under the configured URL field and
\* the correlation id under the configured correlation-id field.
C32_ConfiguredFields ==
    /\ (flow = "notify" /\ PayloadBuilt) =>
          /\ nt.payload[cfg.fileUrlField] = req.videoDownloadUrl
          /\ nt.payload[cfg.idTrabalhoField] = req.id_trabalho
    /\ (flow \in {"upload", "jobs"} /\ PayloadBuilt) =>
          /\ nt.payload[cfg.fileUrlField] = videoUrls.downloadUrl
          /\ nt.payload[cfg.idTrabalhoField] = "id_trabalho"

\* C32 for the configurations whose two names differ from each other and
\* from the fixed keys of the payload
C32_DistinctFields ==
    (flow = "notify" /\ PayloadBuilt
       /\ cfg.fileUrlField # cfg.idTrabalhoField
       /\ {cfg.fileUrlField, cfg.idTrabalhoField} \cap PayloadKeys = {}) =>
          /\ nt.payload[cfg.fileUrlField] = req.videoDownloadUrl
          /\ nt.payload[cfg.idTrabalhoField] = req.id_trabalho

\* The publish call has returned the URLs of a stored object
Published == s3.pc = "returned" /\ ~s3.threw /\ s3.ret = successUrls(s3.key)

\* The URL was produced by getSignedUrl
IsSigned(url) == url.query = "signed;attachment"

\* C33: the stored object carries the content-disposition directive naming
\* the file exactly when forceDownload is set; with forceDownload the view
\* URL returned is a signed URL of 7 days' expiry; and the two URLs
\* returned are URLs of the key the object was stored under.
C33_DispositionAndSignedView ==
    Published =>
        /\ s3.object.Key = s3.key
        /\ s3.forceDownload
              => s3.object.ContentDisposition =
                   [isNull |-> FALSE, type |-> "attachment", filename |-> s3.fileName]
        /\ ~s3.forceDownload => s3.object.ContentDisposition = Null
        /\ s3.ret.downloadUrl.key = s3.key /\ s3.ret.viewUrl.key = s3.key
        /\ s3.forceDownload
              => (IsSigned(s3.ret.viewUrl) /\ s3.signed.Expires = sevenDays)

\* C33 as the code has it: the disposition follows forceDownload, the
\* download URL is the signed one (7 days, attachment) whether or not
\* forceDownload is set, the view URL is the unsigned location of the
\* object, and both are URLs of the stored key.
C33_SignedDownload ==
    Published =>
        /\ s3.object.Key = s3.key
        /\ s3.forceDownload
              => s3.object.ContentDisposition =
                   [isNull |-> FALSE, type |-> "attachment", filename |-> s3.fileName]
        /\ ~s3.forceDownload => s3.object.ContentDisposition = Null
        /\ s3.ret.downloadUrl.key = s3.key /\ s3.ret.viewUrl.key = s3.key
        /\ IsSigned(s3.ret.downloadUrl) /\ ~IsSigned(s3.ret.viewUrl)
        /\ s3.signed = signParams(s3.key, s3.fileName, 604800)

\* C34: a request that uploadFile has handled has exactly one response: one
\* 4xx/5xx error response when the request was closed, the one 200
\* acknowledgment otherwise, whatever the background task did since; and a
\* request not handled yet has none.
C34_ExactlyOneResponse ==
    flow \in {"upload", "jobs"} =>
        /\ pc \in {"received", "handler"} => responses = <<>>
        /\ pc = "closed"
              => (Len(responses) = 1 /\ responses[1].status \in {400, 413, 500})
        /\ pc \notin {"received", "handler", "closed"}
              => (Len(responses) = 1 /\ responses[1].status = 200)

C34_Witness ==
    /\ flow = "upload" /\ pc = "done"
    /\ Has("notifyError") /\ ~Has("notifyFileUploaded")
    /\ Len(responses) = 1 /\ responses[1].status = 200

\* The call returned the placeholder URLs on the error host
ReturnedPlaceholder == s3.pc = "returned" /\ ~s3.threw /\ s3.ret = errorUrls(s3.fileName)

\* C35: within one publish call a put that succeeded is the last put of the
\* call, and the call returns the placeholder only when it made 3 puts and
\* all of them failed, whether or not the signing after a put failed.
C35_SuccessfulPutKept ==
    /\ \A i \in DOMAIN s3.puts : s3.puts[i] = "ok" => i = Len(s3.puts)
    /\ ReturnedPlaceholder
          => (Len(s3.puts) = maxRetries /\ \A i \in DOMAIN s3.puts : s3.puts[i] = "fail")

\* C35 as the code has it: every failed attempt, a put that failed or a
\* signing that failed after a put that succeeded, counts as one retry; a
\* call makes at most 3 puts, and returns the placeholder exactly when 3
\* attempts failed.
C35_AttemptsCounted ==
    /\ Len(s3.puts) <= maxRetries
    /\ s3.pc = "returned" /\ s3.puts # <<>>
          => (ReturnedPlaceholder <=> s3.retries = maxRetries)
    /\ s3.pc = "returned" /\ s3.puts # <<>> /\ ~ReturnedPlaceholder
          => (s3.puts[Len(s3.puts)] = "ok" /\ s3.ret = successUrls(s3.key))

\* The failures inside compressVideo
CompressFailures ==
    {"spawn", "EncoderUnavailable", "mkdtemp", "writeFile", "error", "timeout",
     "noOutput", "readFile"}

\* C36: compressVideo never rejects; a call in which anything failed (the
\* probe, the scratch directory, the file write, the encoder, the timer, a
\* missing or unreadable output) returns the buffer it was given; and its
\* caller goes on with a video artifact in every case, on the same path as
\* after a compression that succeeded.
C36_CompressNeverThrows ==
    /\ (vs.op = "compress" /\ vs.pc \in {"finally", "returned"}) =>
           /\ ~vs.threw
           /\ vs.ret # Null
           /\ vs.err # NoError =>
                  (vs.err \in CompressFailures /\ vs.ret.buffer = file.buffer)
    /\ outcomes["compressVideo"] # "pending" =>
           /\ outcomes["compressVideo"] \in CompressFailures \cup {"ok"}
           /\ compressedVideo # Null
           /\ outcomes["compressVideo"] # "ok" => compressedVideo.buffer = file.buffer
           /\ pc # "bg_catch"
           /\ Has("uploadFile.video")

C36_Witness ==
    /\ flow = "upload" /\ pc = "done"
    /\ outcomes["compressVideo"] = "writeFile"
    /\ compressedVideo.buffer = file.buffer
    /\ Has("uploadFile.video.ret")

\* The failures of the story flow the claim names: download, duration probe
\* (of the source or of a segment), segment transcode, segment read
StoryFailures == {"download", "ffprobe", "error", "timeout", "readFile"}

StoryFailed == st.pc = "returned" /\ st.err \in StoryFailures

\* C37, as stated: after any of these failures processStoryVideo has removed
\* the scratch directory and rejects with the error, returning no list.
C37_Original ==
    StoryFailed => (st.ret = "throw" /\ dirs[st.tempDir] = "removed")

\* C37, amended: after any of these failures processStoryVideo rejects with
\* that error and returns no list, whatever segments it had produced or
\* read; before it rejects, the removal of the scratch directory has been
\* attempted, so the directory is gone whenever that removal succeeded; and
\* a list is returned only when nothing failed and every segment was read.
C37_AllOrNothing ==
    /\ StoryFailed =>
          /\ st.ret = "throw"
          /\ st.tempDir # "null" /\ dirs[st.tempDir] \in {"removed", "leaked"}
    /\ (st.pc = "finally" /\ st.err # NoError) => st.ret = "throw"
    /\ (st.pc \in {"finally", "returned"} /\ st.ret = "value") =>
          (st.err = NoError /\ Len(st.segments) = Len(st.segmentPaths))

C37_Witness ==
    /\ StoryFailed /\ st.err = "readFile"
    /\ st.segments # <<>> /\ Len(st.segments) < Len(st.segmentPaths)
    /\ st.ret = "throw" /\ dirs[st.tempDir] = "leaked"

\* C38: of the windows of a plan only the last can be left out, so the k-th
\* segment returned is the window numbered k: it starts at (k-1) * 60, the
\* first at 0, each ends where the next starts (no overlap, no gap), and the
\* number in the output filename story-part-k is the number in the name of
\* the segment file segment-00k the splitter wrote for it.
C38_ContiguousAligned ==
    SplitReturned =>
        /\ \A k \in DOMAIN st.segmentPaths :
              /\ st.segmentPaths[k].index = k
              /\ st.segmentPaths[k].start = (k - 1) * maxDuration
        /\ \A k \in 1..(Len(st.segmentPaths) - 1) :
              st.segmentPaths[k].start + st.segmentPaths[k].duration
                  = st.segmentPaths[k + 1].start
        /\ st.numberOfSegments > 0 =>
              Len(st.segmentPaths) \in {st.numberOfSegments - 1, st.numberOfSegments}
        /\ \A k \in DOMAIN st.segments :
              /\ Number(IndexField(st.segments[k].filename)) = k
              /\ Number(IndexField(st.segments[k].filename))
                    = Number(IndexField(segmentName(st.segments[k].path - 1)))

\* a 121 s source: three windows, the third left out, two parts returned
C38_Witness ==
    /\ StoryReturned
    /\ st.totalDuration = 2 * maxDuration + 1 /\ st.numberOfSegments = 3
    /\ Len(st.segments) = 2
    /\ st.segments[2].filename = storyPartName(1)
    /\ st.segments[2].path = 2 /\ st.segmentPaths[2].start = maxDuration

\* splitVideoIntoSegments knows the total duration and is running, or has
\* returned to processStoryVideo
SplitProbed ==
    st.pc \in {"stat", "single", "loop", "encode", "size", "reencode", "newSize",
               "readFile", "duration"}

\* the errors that can end processStoryVideo before the total duration is
\* known
BeforeSplit == {"mkdtemp", "download", "ensureDir", "ffprobe"}

\* C39: for a source shorter than 3 s (0 s included) splitVideoIntoSegments
\* starts no transcode and returns the empty list, and processStoryVideo
\* returns the empty list and raises no error.
C39_TooShortIsEmpty ==
    /\ (SplitProbed /\ st.totalDuration < minDuration) =>
          /\ st.pc \in {"loop", "readFile"}
          /\ st.encodes = <<>> /\ st.proc = "none"
          /\ st.segmentPaths = <<>> /\ st.segments = <<>>
          /\ st.err = NoError
    /\ (st.pc \in {"finally", "returned"} /\ st.totalDuration < minDuration
          /\ st.err \notin BeforeSplit) =>
          /\ st.ret = "value" /\ st.err = NoError
          /\ st.segments = <<>> /\ st.encodes = <<>> /\ st.proc = "none"

C39_Witness ==
    /\ st.pc = "returned" /\ st.ret = "value" /\ st.err = NoError
    /\ st.tempDir # "null" /\ st.numberOfSegments = 1
    /\ st.totalDuration = minDuration - 1
    /\ st.segments = <<>> /\ st.encodes = <<>>

\* C40: in every order of the 'end' event, the 'error' event and the timer,
\* the promise of one ffmpeg invocation is settled by the first resolve /
\* reject call and by no later one (completed, failed or timed out); once
\* the listeners of 'end' or 'error' have run the timer is no longer armed;
\* a completed invocation has seen no kill; and the 'error' event that
\* follows the kill leaves the invocation timed out.
C40_SettlesOnce ==
    ff.pc # "idle" =>
        /\ ff.calls = <<>> <=> ff.promise = "pending"
        /\ ff.calls # <<>> => ff.promise = Settlement(ff.calls[1])
        /\ ff.handled # <<>> => ff.timer # "armed"
        /\ ff.timer # "armed" => ff.promise # "pending"
        /\ ff.promise = "completed" => (ff.kills = 0 /\ ff.timer = "cleared")
        /\ ff.kills <= 1 /\ Len(ff.handled) <= 1
        /\ (ff.proc = "SIGKILL" /\ ff.handled = <<"error">>) => ff.promise = "timedOut"

\* the timer fired first, the kill made the command emit 'error', and the
\* second reject changed nothing
C40_Witness ==
    /\ ff.op = "processSegment" /\ ff.proc = "SIGKILL"
    /\ ff.calls = <<"reject:timeout", "reject:error">>
    /\ ff.handled = <<"error">>
    /\ ff.promise = "timedOut" /\ ff.timer = "fired"

=============================================================================
